---------------------------- MODULE Spec2Model ----------------------------
(***************************************************************************)
(* Model of the SQL execution layer of the dbx fullstack boilerplate:      *)
(* the OAuth token manager and the synchronous Lakebase (PostgreSQL)       *)
(* backend of clients/lakebase_backends.py.                                *)
(***************************************************************************)
EXTENDS Integers, Sequences, FiniteSets, TLC

VARIABLES
    token,              \* OAuthTokenManager._token (None or a string)
    last_refresh,       \* OAuthTokenManager._last_refresh
    refresh_interval,   \* OAuthTokenManager._refresh_interval
    workspace_client,   \* TRUE iff OAuthTokenManager._workspace_client is set
    instance_name,      \* TRUE iff OAuthTokenManager._instance_name is set
    use_env_fallback,   \* OAuthTokenManager._use_env_fallback
    ctor,               \* history: how the manager was constructed
    now,                \* the value time.time() returns
    ticks,              \* number of clock advances so far
    token_src,          \* history: the strategy that produced the cached token
    last_success,       \* history: time of the last successful refresh, -1 if none
    obs,                \* history: the last token manager operation
    chain,              \* history: one run of _refresh_token and its answers
    conn,               \* SyncLakebaseBackend._conn
    connection_string,  \* LakebaseBackend._connection_string (None or static)
    pg_config,          \* TRUE iff LakebaseBackend._pg_config is set
    call,               \* history: the last call of execute or fetch
    live,               \* the connections of the backend open at the server
    pool,               \* TRUE iff AsyncLakebaseBackend._pool is set
    wh,                 \* StatementExecutionBackend: the call of _execute_statement
    sv,                 \* the call of save_table and the statements it issued
    rt,                 \* the call of a function wrapped by retry
    tc,                 \* a TTLCache, its clock and its last operation
    cc,                 \* a TTLCache used by two threads, and where they stand
    esc,                \* the last call of escape_name or escape_pg_name
    pgc,                \* the last PostgresConfig constructed
    pc,                 \* where each thread stands in get_token / the refresh loop
    bg_deadline         \* when the refresh loop's sleep ends, -1 if no loop sleeps

tmVars == <<token, last_refresh, refresh_interval, workspace_client,
            instance_name, use_env_fallback, ctor, token_src, last_success>>

\* The variables the operations on the token manager alone leave unchanged.
libVars == <<tc, cc, esc, pgc>>

utilVars == <<sv, rt, libVars>>

pgVars == <<conn, connection_string, pg_config, call, live, pool, wh, utilVars>>

\* The variables of the threads using one manager concurrently.
concVars == <<pc, bg_deadline>>

offManager == <<chain, pgVars, concVars>>

vars == <<tmVars, now, ticks, obs, offManager>>

-----------------------------------------------------------------------------
(* Bounds of the model *)

MaxTicks == 2

-----------------------------------------------------------------------------
(* Values *)

None == "<None>"

TOKEN_REFRESH_INTERVAL == 50 * 60

\* time.time() when the manager is constructed: a clock that still reads the
\* epoch, and an ordinary wall clock.
StartTimes == {0, 1700000000}

\* How far the clock moves between two operations.
Deltas == {TOKEN_REFRESH_INTERVAL, TOKEN_REFRESH_INTERVAL + 1}

\* len() of the strings the environment can hold.
StrLen(s) ==
    CASE s = "" -> 0
      [] s = "changeme" -> 8
      [] s = "pgpw-20-chars-xxxxxx" -> 20
      [] s = "pgpw-21-chars-xxxxxxx" -> 21
      [] s = "dapi-env" -> 8
      [] OTHER -> 6

\* min(a, b)
Min(a, b) == IF a <= b THEN a ELSE b

\* Python truthiness of an optional string.
Truthy(s) == s # None /\ s # ""

\* What the collaborators answer during one run of _refresh_token.
\*   cred  : generate_database_credential(): raises, or cred.access_token
\*   oauth : config.oauth_token(): raises, or oauth_token.access_token
\*   hdr   : config.header_factory: absent, raises, or the Authorization
\*           header as <<first 7 characters, rest>>
\*   pg,db : os.environ.get("PGPASSWORD"), os.environ.get("DATABRICKS_TOKEN")
Raises == "<raises>"
CredOutcomes == {Raises, None, "", "cred-A", "cred-B"}
OAuthOutcomes == {Raises, None, "oauth-A"}
HdrOutcomes == {<<Raises>>, <<None>>, <<"", "">>, <<"Basic ", "dXNlcg">>,
                <<"Bearer ", "">>, <<"Bearer ", "hdr-A">>}
PgValues == {None, "", "changeme", "pgpw-20-chars-xxxxxx", "pgpw-21-chars-xxxxxxx"}
DbValues == {None, "", "dapi-env"}

Envs == [cred : CredOutcomes, oauth : OAuthOutcomes, hdr : HdrOutcomes,
         pg : PgValues, db : DbValues]

\* The answers drawn during long runs of operations: the credential call
\* fails or issues one of two tokens, the header factory fails or yields a
\* bearer header with nothing after the scheme, PGPASSWORD is too short or
\* long enough, DATABRICKS_TOKEN is unset or set; oauth_token() yields nothing.
CallEnvs == {e \in Envs : /\ e.cred \in {Raises, "cred-A", "cred-B"}
                          /\ e.oauth = None
                          /\ e.hdr \in {<<Raises>>, <<"Bearer ", "">>}
                          /\ e.pg \in {"changeme", "pgpw-21-chars-xxxxxxx"}
                          /\ e.db \in {None, "dapi-env"}}

Strategies == <<1, 2, 3, 4, 5>>

-----------------------------------------------------------------------------
(* OAuthTokenManager *)

\* Method 1: `if cred and cred.access_token`
CredOk(e) == e.cred # Raises /\ Truthy(e.cred)
\* Method 2: `if oauth_token and oauth_token.access_token`
OAuthOk(e) == e.oauth # Raises /\ Truthy(e.oauth)
\* Method 3: header_factory present, no exception, header starts with "Bearer "
HdrOk(e) == Len(e.hdr) = 2 /\ e.hdr[1] = "Bearer "
\* Method 4: `if pg_password and len(pg_password) > 20`
PgOk(e) == Truthy(e.pg) /\ StrLen(e.pg) > 20
\* Method 5: `if db_token`
DbOk(e) == Truthy(e.db)

RefreshToken_TokenBeforePassword(tok, last, ws, inst, fb, e, t) ==
    LET try1 == ws /\ inst
        ok1  == try1 /\ CredOk(e)
        try2 == ws /\ ~ok1
        ok2  == try2 /\ OAuthOk(e)
        try3 == ws /\ ~ok1 /\ ~ok2
        ok3  == try3 /\ HdrOk(e)
        try5 == fb /\ ~ok1 /\ ~ok2 /\ ~ok3
        ok5  == try5 /\ DbOk(e)
        try4 == fb /\ ~ok1 /\ ~ok2 /\ ~ok3 /\ ~ok5
        ok4  == try4 /\ PgOk(e)
        won  == CASE ok1 -> 1 [] ok2 -> 2 [] ok3 -> 3 [] ok5 -> 5 [] ok4 -> 4
                  [] OTHER -> 0
        tried == SelectSeq(<<1, 2, 3, 5, 4>>,
                    LAMBDA s : CASE s = 1 -> try1 [] s = 2 -> try2
                                 [] s = 3 -> try3 [] s = 4 -> try4
                                 [] OTHER -> try5)
    IN  [token |-> CASE ok1 -> e.cred [] ok2 -> e.oauth [] ok3 -> e.hdr[2]
                     [] ok5 -> e.db [] ok4 -> e.pg [] OTHER -> tok,
         last_refresh |-> IF won # 0 THEN t ELSE last,
         ok |-> won # 0, won |-> won, tried |-> tried]

RefreshToken_ClearsOnFailure(tok, last, ws, inst, fb, e, t) ==
    LET ok1 == ws /\ inst /\ CredOk(e)
        ok2 == ws /\ ~ok1 /\ OAuthOk(e)
        ok3 == ws /\ ~ok1 /\ ~ok2 /\ HdrOk(e)
        ok4 == fb /\ ~ok1 /\ ~ok2 /\ ~ok3 /\ PgOk(e)
        ok5 == fb /\ ~ok1 /\ ~ok2 /\ ~ok3 /\ ~ok4 /\ DbOk(e)
        won == CASE ok1 -> 1 [] ok2 -> 2 [] ok3 -> 3 [] ok4 -> 4 [] ok5 -> 5
                 [] OTHER -> 0
    IN  [token |-> CASE ok1 -> e.cred [] ok2 -> e.oauth [] ok3 -> e.hdr[2]
                     [] ok4 -> e.pg [] ok5 -> e.db [] OTHER -> None,
         last_refresh |-> IF won # 0 THEN t ELSE last,
         ok |-> won # 0, won |-> won, tried |-> <<>>]

RefreshToken_StampsOnFailure(tok, last, ws, inst, fb, e, t) ==
    LET ok1 == ws /\ inst /\ CredOk(e)
        ok2 == ws /\ ~ok1 /\ OAuthOk(e)
        ok3 == ws /\ ~ok1 /\ ~ok2 /\ HdrOk(e)
        ok4 == fb /\ ~ok1 /\ ~ok2 /\ ~ok3 /\ PgOk(e)
        ok5 == fb /\ ~ok1 /\ ~ok2 /\ ~ok3 /\ ~ok4 /\ DbOk(e)
        won == CASE ok1 -> 1 [] ok2 -> 2 [] ok3 -> 3 [] ok4 -> 4 [] ok5 -> 5
                 [] OTHER -> 0
    IN  [token |-> CASE ok1 -> e.cred [] ok2 -> e.oauth [] ok3 -> e.hdr[2]
                     [] ok4 -> e.pg [] ok5 -> e.db [] OTHER -> tok,
         last_refresh |-> t,
         ok |-> won # 0, won |-> won, tried |-> <<>>]

\* _refresh_token: the strategy chain.  tok, last are the fields before the
\* call, t the clock; the result holds the fields after it, the return value
\* (ok), the strategy that set the token (won, 0 if none) and the strategies
\* attempted, in order (tried).
RefreshToken(tok, last, ws, inst, fb, e, t) ==
    LET try1 == ws /\ inst
        ok1  == try1 /\ CredOk(e)
        try2 == ws /\ ~ok1
        ok2  == try2 /\ OAuthOk(e)
        try3 == ws /\ ~ok1 /\ ~ok2
        ok3  == try3 /\ HdrOk(e)
        try4 == fb /\ ~ok1 /\ ~ok2 /\ ~ok3
        ok4  == try4 /\ PgOk(e)
        try5 == fb /\ ~ok1 /\ ~ok2 /\ ~ok3 /\ ~ok4
        ok5  == try5 /\ DbOk(e)
        won  == CASE ok1 -> 1 [] ok2 -> 2 [] ok3 -> 3 [] ok4 -> 4 [] ok5 -> 5
                  [] OTHER -> 0
        tried == SelectSeq(Strategies,
                    LAMBDA s : CASE s = 1 -> try1 [] s = 2 -> try2
                                 [] s = 3 -> try3 [] s = 4 -> try4
                                 [] OTHER -> try5)
    IN  [token |-> CASE ok1 -> e.cred [] ok2 -> e.oauth [] ok3 -> e.hdr[2]
                     [] ok4 -> e.pg [] ok5 -> e.db [] OTHER -> tok,
         last_refresh |-> IF won # 0 THEN t ELSE last,
         ok |-> won # 0,
         won |-> won,
         tried |-> tried]

NeedsRefresh_OnlyWhenAbsent(tok, last, interval, t) ==
    tok = None

\* get_token: the staleness test
NeedsRefresh(tok, last, interval, t) ==
    tok = None \/ (t - last) > interval

\* get_token: `return self._token or ""`
TokenOrEmpty(tok) == IF Truthy(tok) THEN tok ELSE ""

\* invalidate: the value the freshness clock is reset to
InvalidatedClock == 0

FromWorkspaceClientFallback_Kept == TRUE

\* from_workspace_client: the value of _use_env_fallback
FromWorkspaceClientFallback == FALSE

\* No workspace strategy of e succeeds / an environment variable of e holds
\* a value the environment fallback would accept.
WsFailed(e) == ~CredOk(e) /\ ~OAuthOk(e) /\ ~HdrOk(e)
EnvValid(e) == PgOk(e) \/ DbOk(e)

\* The record of one operation: op, the operation before it (prev), what that
\* one returned and whether its refresh failed, the token before the
\* operation and its age (none: never refreshed; within or aged: obtained at
\* most, or more than, the refresh interval ago), the number of runs of _refresh_token the operation made, what the
\* run returned and which strategy won, the value returned, and what the
\* collaborators answered.
TokenAge ==
    CASE last_success < 0 -> "none"
      [] now - last_success > refresh_interval -> "aged"
      [] OTHER -> "within"

Observe(op, refreshes, r, ret, e) ==
    [op |-> op, prev |-> obs.op, prev_ret |-> obs.ret,
     prev_failed |-> (obs.refreshes = 1 /\ ~obs.ok),
     pre_token |-> token,
     age |-> TokenAge,
     refreshes |-> refreshes, ok |-> r.ok, won |-> r.won, ret |-> ret,
     ws_failed |-> (refreshes = 1 /\ WsFailed(e)),
     env_valid |-> (refreshes = 1 /\ EnvValid(e))]

NoRefresh == [token |-> token, last_refresh |-> last_refresh,
              ok |-> FALSE, won |-> 0, tried |-> <<>>]

NoChain == [env |-> <<>>, pre_token |-> None, tried |-> <<>>, won |-> 0]

\* No connection held; of a held one, the password slot of its connection
\* string and (history) what get_token returned when it was opened.
NoConn == [open |-> FALSE, password |-> None, token |-> None]

NoErr == "<no error>"

\* The threads using one manager: request handlers calling get_token, the
\* task start_background_refresh creates, and the worker thread in which the
\* task runs _refresh_token (asyncio.to_thread).
Callers == {"caller-1", "caller-2"}
Background == "refresh-loop"
Worker == "to_thread"
Threads == Callers \cup {Background, Worker}
NoThreads == [t \in Threads |-> IF t = Background THEN "unstarted" ELSE "idle"]
NoDeadline == -1

\* No call of _execute_statement yet.  Of a call: where it stands, the
\* status of the last response, the half seconds elapsed since start, the
\* timeout in seconds, whether the response carries a statement id, the
\* calls of get_statement and of cancel_execution made, and the outcome.
\* Of the execute or fetch that made the call: the calls of
\* execute_statement, the error message of the status if the statement
\* failed, the manifest's column types, the number of chunks of the result,
\* the next chunk index (-1 for none), the chunk indexes asked for, the rows
\* the workspace sent and the rows fetch yielded.
NoStatement == [pc |-> "idle", state |-> None, elapsed |-> 0, timeout |-> 0,
                has_id |-> FALSE, polls |-> 0, cancels |-> 0, result |-> <<>>,
                op |-> None, submits |-> 0, error |-> None, manifest |-> <<>>, chunks |-> 0,
                next |-> -1, fetched |-> <<>>, served |-> <<>>,
                yielded |-> <<>>]

\* No call of save_table yet.
NoSave == [backend |-> None, mode |-> None, records |-> 0, dataclass |-> TRUE,
           statements |-> <<>>, result |-> None]

\* No call of a wrapped function yet.
NoRetry == [pc |-> "idle", style |-> None, max_attempts |-> 0,
            initial_delay |-> 0, max_delay |-> 0, exponential_base |-> 0,
            jitter |-> FALSE, retryable |-> {}, attempt |-> 0, calls |-> 0,
            outcomes |-> <<>>, slept |-> <<>>,
            result |-> [kind |-> None, class |-> None, attempt |-> 0]]

\* No TTLCache constructed yet.
NoCache == [pc |-> "none", maxsize |-> 0, ttl_seconds |-> 0, cache |-> <<>>,
            used |-> <<>>,
            op |-> [name |-> "none", key |-> None, arg |-> None, at |-> 0,
                    before |-> <<>>, lru |-> None, result |-> None,
                    evicted |-> <<>>, invoked |-> 0]]

\* No shared TTLCache constructed yet.
CacheThreads == {"thread-1", "thread-2"}
NoOperation == [pc |-> "idle", op |-> None, key |-> None, value |-> None,
                snap |-> <<>>, t |-> 0, result |-> None]
NoShared == [pc |-> "none", maxsize |-> 0, ttl_seconds |-> 0, cache |-> <<>>,
             lock |-> None, th |-> [t \in CacheThreads |-> NoOperation]]

\* No identifier escaped yet.
NoEscape == [op |-> "none", name |-> <<>>, result |-> <<>>]

\* No PostgresConfig constructed yet.
NoConfig == [op |-> "none", copy |-> None, constructed |-> FALSE,
             host |-> None, port |-> None, database |-> None,
             sslmode |-> None, hostaddr |-> None,
             error |-> None, conn_str |-> <<>>]

NoCall == [op |-> "none", sql |-> None, err1 |-> NoErr, err2 |-> NoErr,
           tries |-> 0, executes |-> 0, connects1 |-> 0, connects2 |-> 0,
           held |-> FALSE, closes |-> 0, clock |-> -1, result |-> <<>>,
           delivered |-> <<>>, fresh2 |-> FALSE, descrs |-> 0, arg |-> None]

\* __init__ (default constructor) or from_workspace_client
Init ==
    /\ token = None
    /\ last_refresh = 0
    /\ refresh_interval = TOKEN_REFRESH_INTERVAL
    /\ workspace_client \in BOOLEAN
    /\ instance_name \in BOOLEAN
    /\ ctor \in {"__init__", "from_workspace_client"}
    /\ use_env_fallback = IF ctor = "from_workspace_client"
                          THEN FromWorkspaceClientFallback ELSE TRUE
    /\ now \in StartTimes
    /\ ticks = 0
    /\ token_src = 0
    /\ last_success = -1
    /\ obs = [op |-> "init", prev |-> "init", prev_ret |-> None,
              prev_failed |-> FALSE, pre_token |-> None, age |-> "none",
              refreshes |-> 0, ok |-> FALSE, won |-> 0,
              ret |-> None, ws_failed |-> FALSE, env_valid |-> FALSE]
    /\ chain = NoChain
    /\ conn = NoConn
    /\ connection_string = None
    /\ pg_config = TRUE
    /\ call = NoCall
    /\ live = 0
    /\ pool = FALSE
    /\ wh = NoStatement
    /\ sv = NoSave
    /\ rt = NoRetry
    /\ tc = NoCache
    /\ cc = NoShared
    /\ esc = NoEscape
    /\ pgc = NoConfig
    /\ pc = NoThreads
    /\ bg_deadline = NoDeadline

\* The clock advances between two operations.
Tick ==
    /\ ticks < MaxTicks
    /\ \E d \in Deltas : now' = now + d
    /\ ticks' = ticks + 1
    /\ UNCHANGED <<tmVars, obs, offManager>>

\* The manager's fields and history after a run r of _refresh_token (or none).
Refreshed(r) ==
    /\ token' = r.token
    /\ last_refresh' = r.last_refresh
    /\ token_src' = IF r.ok THEN r.won ELSE token_src
    /\ last_success' = IF r.ok THEN now ELSE last_success

GetToken ==
    \E e \in CallEnvs :
        LET stale == NeedsRefresh(token, last_refresh, refresh_interval, now)
            r == IF stale
                 THEN RefreshToken(token, last_refresh, workspace_client,
                                   instance_name, use_env_fallback, e, now)
                 ELSE NoRefresh
        IN  /\ Refreshed(r)
            /\ obs' = Observe("get_token", IF stale THEN 1 ELSE 0, r,
                              TokenOrEmpty(r.token), e)
            /\ UNCHANGED <<refresh_interval, workspace_client, instance_name,
                           use_env_fallback, ctor, now, ticks, offManager>>

\* A direct call of _refresh_token (start_background_refresh, the refresh loop)
Refresh ==
    \E e \in CallEnvs :
        LET r == RefreshToken(token, last_refresh, workspace_client,
                              instance_name, use_env_fallback, e, now)
        IN  /\ Refreshed(r)
            /\ obs' = Observe("refresh", 1, r, None, e)
            /\ UNCHANGED <<refresh_interval, workspace_client, instance_name,
                           use_env_fallback, ctor, now, ticks, offManager>>

Invalidate_ClearsToken ==
    /\ last_refresh' = InvalidatedClock
    /\ token' = None
    /\ obs' = Observe("invalidate", 0, NoRefresh, None, CHOOSE e \in CallEnvs : TRUE)
    /\ UNCHANGED <<refresh_interval, workspace_client, instance_name,
                   use_env_fallback, ctor, now, ticks, token_src, last_success,
                   offManager>>

Invalidate ==
    /\ last_refresh' = InvalidatedClock
    /\ obs' = Observe("invalidate", 0, NoRefresh, None, CHOOSE e \in CallEnvs : TRUE)
    /\ UNCHANGED <<token, refresh_interval, workspace_client, instance_name,
                   use_env_fallback, ctor, now, ticks, token_src, last_success,
                   offManager>>

SetWorkspaceClient ==
    /\ workspace_client' = TRUE
    /\ UNCHANGED <<token, last_refresh, refresh_interval, instance_name,
                   use_env_fallback, ctor, now, ticks, token_src, last_success,
                   obs, offManager>>

Next == Tick \/ GetToken \/ Refresh \/ Invalidate \/ SetWorkspaceClient

Spec == Init /\ [][Next]_vars

-----------------------------------------------------------------------------
(* One run of _refresh_token, against every answer of the collaborators *)

\* A manager just constructed, or one that cached a token some time ago.
InitRefresh ==
    /\ token \in {None, "cred-0"}
    /\ token_src = (IF token = None THEN 0 ELSE 1)
    /\ now \in StartTimes
    /\ last_refresh = (IF token = None THEN 0 ELSE now)
    /\ last_success = (IF token = None THEN -1 ELSE now)
    /\ refresh_interval = TOKEN_REFRESH_INTERVAL
    /\ workspace_client \in BOOLEAN
    /\ instance_name \in BOOLEAN
    /\ ctor \in {"__init__", "from_workspace_client"}
    /\ use_env_fallback = IF ctor = "from_workspace_client"
                          THEN FromWorkspaceClientFallback ELSE TRUE
    /\ ticks = 0
    /\ obs = [op |-> "init", prev |-> "init", prev_ret |-> None,
              prev_failed |-> FALSE, pre_token |-> None, age |-> "none",
              refreshes |-> 0, ok |-> FALSE, won |-> 0,
              ret |-> None, ws_failed |-> FALSE, env_valid |-> FALSE]
    /\ chain = NoChain
    /\ conn = NoConn
    /\ connection_string = None
    /\ pg_config = TRUE
    /\ call = NoCall
    /\ live = 0
    /\ pool = FALSE
    /\ wh = NoStatement
    /\ sv = NoSave
    /\ rt = NoRetry
    /\ tc = NoCache
    /\ cc = NoShared
    /\ esc = NoEscape
    /\ pgc = NoConfig
    /\ pc = NoThreads
    /\ bg_deadline = NoDeadline

RefreshChain ==
    /\ chain = NoChain
    /\ \E e \in Envs :
        LET r == RefreshToken(token, last_refresh, workspace_client,
                              instance_name, use_env_fallback, e, now)
        IN  /\ Refreshed(r)
            /\ chain' = [env |-> e, pre_token |-> token, tried |-> r.tried,
                         won |-> r.won]
    /\ UNCHANGED <<refresh_interval, workspace_client, instance_name,
                   use_env_fallback, ctor, now, ticks, obs, pgVars,
                   concVars>>

NextRefresh == RefreshChain

SpecRefresh == InitRefresh /\ [][NextRefresh]_vars

-----------------------------------------------------------------------------
(* SyncLakebaseBackend *)

\* The characters of the exception messages.
Chars(msg) ==
    CASE msg = "password authentication failed" ->
           <<"p", "a", "s", "s", "w", "o", "r", "d", " ", "a", "u", "t", "h",
             "e", "n", "t", "i", "c", "a", "t", "i", "o", "n", " ", "f", "a",
             "i", "l", "e", "d">>
      [] msg = "PASSWORD EXPIRED" ->
           <<"P", "A", "S", "S", "W", "O", "R", "D", " ", "E", "X", "P", "I",
             "R", "E", "D">>
      [] msg = "auth timeout" ->
           <<"a", "u", "t", "h", " ", "t", "i", "m", "e", "o", "u", "t">>
      [] msg = "pg_config not set. Pass pg_config when constructing the backend." ->
           <<"p", "g", "_", "c", "o", "n", "f", "i", "g", " ", "n", "o", "t",
             " ", "s", "e", "t", ".", " ", "P", "a", "s", "s", " ", "p", "g",
             "_", "c", "o", "n", "f", "i", "g", " ", "w", "h", "e", "n", " ",
             "c", "o", "n", "s", "t", "r", "u", "c", "t", "i", "n", "g", " ",
             "t", "h", "e", " ", "b", "a", "c", "k", "e", "n", "d", ".">>
      [] OTHER -> <<>>

\* "authentication", "password"
NeedleAuthentication ==
    <<"a", "u", "t", "h", "e", "n", "t", "i", "c", "a", "t", "i", "o", "n">>
NeedlePassword == <<"p", "a", "s", "s", "w", "o", "r", "d">>

UpperChars == <<"A", "B", "C", "D", "E", "F", "G", "H", "I", "J", "K", "L", "M",
                "N", "O", "P", "Q", "R", "S", "T", "U", "V", "W", "X", "Y", "Z">>
LowerChars == <<"a", "b", "c", "d", "e", "f", "g", "h", "i", "j", "k", "l", "m",
                "n", "o", "p", "q", "r", "s", "t", "u", "v", "w", "x", "y", "z">>

\* str.lower()
Lower(str) ==
    [i \in 1..Len(str) |->
        IF \E k \in 1..Len(UpperChars) : UpperChars[k] = str[i]
        THEN LowerChars[CHOOSE k \in 1..Len(UpperChars) : UpperChars[k] = str[i]]
        ELSE str[i]]

\* `needle in str`
Contains(str, needle) ==
    \E i \in 1..(Len(str) - Len(needle) + 1) :
        SubSeq(str, i, i + Len(needle) - 1) = needle

IsAuthError_Always(msg) == TRUE

\* LakebaseBackend._is_auth_error
IsAuthError(msg) ==
    LET error_str == Lower(Chars(msg))
    IN  Contains(error_str, NeedleAuthentication) \/ Contains(error_str, NeedlePassword)

\* The messages the driver and the server raise, and the one _get_pg_config
\* raises.
ServerMessages == {"password authentication failed", "PASSWORD EXPIRED", "auth timeout"}
MsgConfigMissing ==
    "pg_config not set. Pass pg_config when constructing the backend."

\* The messages _is_auth_error classifies as auth errors.
AuthErrors == {m \in ServerMessages \cup {MsgConfigMissing} : IsAuthError(m)}

\* The statements sent, the rowcount the server reports for each and the
\* rows it returns.
ExecuteSqls == {"UPDATE t SET x = 1"}
FetchSqls == {"SELECT x FROM t"}
RowCount(sql) == IF sql = "UPDATE t SET x = 1" THEN 3 ELSE 2
Rows(sql) == IF sql = "SELECT x FROM t" THEN <<"row-1", "row-2">> ELSE <<>>

\* What the server does to one attempt: nothing, or an exception with msg
\* raised by psycopg.connect, by cur.execute, by conn.commit, or by the
\* cursor after k rows were read (fewer than the statement returns).
NoFail == [stage |-> "none", msg |-> NoErr, k |-> 0]
Failures == {"password authentication failed", "auth timeout"}
ExecuteScripts ==
    {NoFail} \cup [stage : {"connect", "execute", "commit"}, msg : Failures, k : {0}]
             \cup {[stage |-> "execute", msg |-> "PASSWORD EXPIRED", k |-> 0]}
FetchScripts ==
    {NoFail} \cup [stage : {"connect", "execute"}, msg : Failures, k : {0}]
             \cup [stage : {"iterate"}, msg : Failures, k : {1}]

\* The answers of the token manager's collaborators during backend calls.
PgEnvs == {e \in CallEnvs : e.hdr = <<Raises>> /\ e.pg = "changeme" /\ e.db = None}
FirstEnvs == {e \in PgEnvs : e.cred # "cred-B"}
RetryEnvs == {e \in PgEnvs : e.cred # "cred-A"}

StaticSecret == "static-secret"

\* The manager's fields and the connection, threaded through one call.
\* oks counts the runs of _refresh_token that succeeded during the call.
St == [token |-> token, last_refresh |-> last_refresh, token_src |-> token_src,
       last_success |-> last_success, conn |-> conn, live |-> live, oks |-> 0]

\* get_token, on the threaded state: the fields after the refresh r
StRefreshed(st, r) ==
    [st EXCEPT !.token = r.token, !.last_refresh = r.last_refresh,
               !.token_src = IF r.ok THEN r.won ELSE @,
               !.last_success = IF r.ok THEN now ELSE @,
               !.oks = IF r.ok THEN @ + 1 ELSE @]

StGetToken(st, e) ==
    IF NeedsRefresh(st.token, st.last_refresh, refresh_interval, now)
    THEN StRefreshed(st, RefreshToken(st.token, st.last_refresh, workspace_client,
                                      instance_name, use_env_fallback, e, now))
    ELSE st

\* config.build_connection_string(password), st2 being the state get_token
\* leaves
Built(st2) == [st |-> st2, password |-> TokenOrEmpty(st2.token), err |-> NoErr]

\* _build_connection_string: the state after it, the password slot of the
\* connection string, and the exception raised (NoErr if none).
BuildConnectionString(st, e) ==
    IF connection_string # None
    THEN [st |-> st, password |-> StaticSecret, err |-> NoErr]
    ELSE IF ~pg_config
    THEN [st |-> st, password |-> None, err |-> MsgConfigMissing]
    ELSE Built(StGetToken(st, e))

Connect_WithoutCheck(b, sc) ==
    IF b.err # NoErr
    THEN [st |-> b.st, err |-> b.err, connected |-> FALSE]
    ELSE IF sc.stage = "connect"
    THEN [st |-> b.st, err |-> sc.msg, connected |-> FALSE]
    ELSE [st |-> [b.st EXCEPT !.conn = [open |-> TRUE, password |-> b.password,
                                        token |-> TokenOrEmpty(b.st.token)],
                              !.live = @ + 1],
          err |-> NoErr, connected |-> TRUE]

\* _get_connection after _build_connection_string gave b, the server acting
\* as the script sc says
Connect(b, sc) ==
    IF b.err # NoErr
    THEN [st |-> b.st, err |-> b.err, connected |-> FALSE]
    ELSE IF b.st.conn.open
    THEN [st |-> b.st, err |-> NoErr, connected |-> FALSE]
    ELSE IF sc.stage = "connect"
    THEN [st |-> b.st, err |-> sc.msg, connected |-> FALSE]
    ELSE [st |-> [b.st EXCEPT !.conn = [open |-> TRUE, password |-> b.password,
                                        token |-> TokenOrEmpty(b.st.token)],
                              !.live = @ + 1],
          err |-> NoErr, connected |-> TRUE]

\* _get_connection
GetConnection(st, e, sc) == Connect(BuildConnectionString(st, e), sc)

Reconnect_KeepsClock(st) ==
    [st EXCEPT !.conn = NoConn, !.live = IF st.conn.open THEN @ - 1 ELSE @]

\* _reconnect
Reconnect(st) ==
    [st EXCEPT !.conn = NoConn, !.live = IF st.conn.open THEN @ - 1 ELSE @,
               !.last_refresh = InvalidatedClock]

\* cur.execute, conn.commit and cur.rowcount on what _get_connection gave
ExecuteOn(g, sc, sql) ==
    [st |-> g.st,
     err |-> IF g.err # NoErr THEN g.err
             ELSE IF sc.stage \in {"execute", "commit"} THEN sc.msg ELSE NoErr,
     connected |-> g.connected,
     executed |-> g.err = NoErr,
     described |-> FALSE,
     value |-> RowCount(sql),
     rows |-> <<>>]

\* One attempt of execute
AttemptExecute(st, e, sc, sql) == ExecuteOn(GetConnection(st, e, sc), sc, sql)

\* cur.execute and the rows yielded on what _get_connection gave
FetchOn(g, sc, sql) ==
    [st |-> g.st,
     err |-> IF g.err # NoErr THEN g.err
             ELSE IF sc.stage \in {"execute", "iterate"} THEN sc.msg ELSE NoErr,
     connected |-> g.connected,
     executed |-> g.err = NoErr,
     described |-> g.err = NoErr /\ sc.stage # "execute",
     value |-> None,
     rows |-> IF g.err # NoErr \/ sc.stage = "execute" THEN <<>>
              ELSE IF sc.stage = "iterate" THEN SubSeq(Rows(sql), 1, sc.k)
              ELSE Rows(sql)]

\* One attempt of fetch
AttemptFetch(st, e, sc, sql) == FetchOn(GetConnection(st, e, sc), sc, sql)

\* The try/except of execute and fetch around two attempts a1 and a2 (a2
\* made from the state _reconnect leaves), and the record of the call.
Retried(a1) == a1.err # NoErr /\ a1.err \in AuthErrors

Finish(op, sql, a1, a2) ==
    LET retry == Retried(a1)
        fin == IF retry THEN a2 ELSE a1
    IN  /\ token' = fin.st.token
        /\ last_refresh' = fin.st.last_refresh
        /\ token_src' = fin.st.token_src
        /\ last_success' = fin.st.last_success
        /\ conn' = fin.st.conn
        /\ live' = fin.st.live
        /\ call' = [op |-> op, sql |-> sql, err1 |-> a1.err,
                    err2 |-> IF retry THEN a2.err ELSE NoErr,
                    tries |-> IF retry THEN 2 ELSE 1,
                    executes |-> (IF a1.executed THEN 1 ELSE 0)
                                 + (IF retry /\ a2.executed THEN 1 ELSE 0),
                    connects1 |-> IF a1.connected THEN 1 ELSE 0,
                    connects2 |-> IF retry /\ a2.connected THEN 1 ELSE 0,
                    held |-> a1.st.conn.open,
                    closes |-> IF retry /\ a1.st.conn.open THEN 1 ELSE 0,
                    clock |-> IF retry THEN Reconnect(a1.st).last_refresh ELSE -1,
                    result |-> IF fin.err # NoErr THEN <<"raise", fin.err>>
                               ELSE <<"return", fin.value>>,
                    delivered |-> IF retry THEN a1.rows \o a2.rows ELSE a1.rows,
                    fresh2 |-> retry /\ a2.st.oks > a1.st.oks,
                    descrs |-> (IF a1.described THEN 1 ELSE 0)
                               + (IF retry /\ a2.described THEN 1 ELSE 0),
                    arg |-> None]
        /\ UNCHANGED <<refresh_interval, workspace_client, instance_name,
                       use_env_fallback, ctor, now, ticks, obs, chain,
                       connection_string, pg_config, pool, wh, utilVars, concVars>>

\* execute: the first attempt a1; on an auth error _reconnect and a second
\* attempt a2, whose exceptions propagate.
Execute ==
    \E sql \in ExecuteSqls, sc1 \in ExecuteScripts, e1 \in FirstEnvs :
        /\ sc1.stage = "connect" => ~conn.open
        /\ \E a1 \in {AttemptExecute(St, e1, sc1, sql)} :
           \E sc2 \in (IF Retried(a1) THEN ExecuteScripts ELSE {NoFail}),
              e2 \in (IF Retried(a1) THEN RetryEnvs ELSE {e1}) :
           \E a2 \in {AttemptExecute(Reconnect(a1.st), e2, sc2, sql)} :
               Finish("execute", sql, a1, a2)

\* fetch, iterated by the caller to its end
Fetch ==
    \E sql \in FetchSqls, sc1 \in FetchScripts, e1 \in FirstEnvs :
        /\ sc1.stage = "connect" => ~conn.open
        /\ \E a1 \in {AttemptFetch(St, e1, sc1, sql)} :
           \E sc2 \in (IF Retried(a1) THEN FetchScripts ELSE {NoFail}),
              e2 \in (IF Retried(a1) THEN RetryEnvs ELSE {e1}) :
           \E a2 \in {AttemptFetch(Reconnect(a1.st), e2, sc2, sql)} :
               Finish("fetch", sql, a1, a2)

\* close
Close ==
    /\ conn.open
    /\ conn' = NoConn
    /\ live' = live - 1
    /\ UNCHANGED <<tmVars, now, ticks, obs, chain, connection_string,
                   pg_config, call, pool, wh, utilVars, concVars>>

\* The clock advances past the refresh interval between two calls.
TickPg ==
    /\ ticks < MaxTicks
    /\ now' = now + refresh_interval + 1
    /\ ticks' = ticks + 1
    /\ UNCHANGED <<tmVars, obs, offManager>>

\* SyncLakebaseBackend.__init__ with its own token manager or a supplied one,
\* and a pg_config, a connection string, or neither.
InitPg ==
    /\ token = None
    /\ last_refresh = 0
    /\ refresh_interval = TOKEN_REFRESH_INTERVAL
    /\ workspace_client = TRUE
    /\ instance_name = TRUE
    /\ ctor = "__init__"
    /\ use_env_fallback = TRUE
    /\ now \in StartTimes
    /\ ticks = 0
    /\ token_src = 0
    /\ last_success = -1
    /\ obs = [op |-> "init", prev |-> "init", prev_ret |-> None,
              prev_failed |-> FALSE, pre_token |-> None, age |-> "none",
              refreshes |-> 0, ok |-> FALSE, won |-> 0,
              ret |-> None, ws_failed |-> FALSE, env_valid |-> FALSE]
    /\ chain = NoChain
    /\ conn = NoConn
    /\ \/ connection_string = None /\ pg_config \in BOOLEAN
       \/ connection_string = StaticSecret /\ pg_config = FALSE
    /\ call = NoCall
    /\ live = 0
    /\ pool = FALSE
    /\ wh = NoStatement
    /\ sv = NoSave
    /\ rt = NoRetry
    /\ tc = NoCache
    /\ cc = NoShared
    /\ esc = NoEscape
    /\ pgc = NoConfig
    /\ pc = NoThreads
    /\ bg_deadline = NoDeadline

NextPg == TickPg \/ Execute \/ Fetch \/ Close

SpecPg == InitPg /\ [][NextPg]_vars

-----------------------------------------------------------------------------
(* AsyncLakebaseBackend *)

\* What the server does to one attempt of fetch_async: as for fetch, the
\* rows being read by one cur.fetchall().
AsyncFetchScripts ==
    {NoFail} \cup [stage : {"connect", "execute", "fetchall"}, msg : Failures, k : {0}]

\* AsyncLakebaseBackend._get_connection and the entry of `async with`: a
\* connection of the pool, or an ad hoc one opened with the connection
\* string _build_connection_string gives.
AsyncAcquire(b, sc) ==
    IF b.err # NoErr
    THEN [st |-> b.st, err |-> b.err, connected |-> FALSE]
    ELSE IF sc.stage = "connect"
    THEN [st |-> b.st, err |-> sc.msg, connected |-> FALSE]
    ELSE [st |-> [b.st EXCEPT !.live = @ + 1], err |-> NoErr, connected |-> TRUE]

AsyncGetConnection(st, e, sc) ==
    AsyncAcquire(IF pool THEN [st |-> st, password |-> None, err |-> NoErr]
                 ELSE BuildConnectionString(st, e), sc)

AsyncRelease_Never(st, connected) == st

\* The exit of `async with`: the connection goes back to the pool or is
\* closed, whether the block raised or not.
AsyncRelease(st, connected) ==
    IF connected THEN [st EXCEPT !.live = @ - 1] ELSE st

\* One attempt of execute_async on what _get_connection gave
ExecuteAsyncOn(g, sc, sql) ==
    [st |-> AsyncRelease(g.st, g.connected),
     err |-> IF g.err # NoErr THEN g.err
             ELSE IF sc.stage \in {"execute", "commit"} THEN sc.msg ELSE NoErr,
     connected |-> g.connected,
     executed |-> g.err = NoErr,
     described |-> FALSE,
     value |-> RowCount(sql),
     rows |-> <<>>]

AttemptExecuteAsync(st, e, sc, sql) ==
    ExecuteAsyncOn(AsyncGetConnection(st, e, sc), sc, sql)

\* One attempt of fetch_async on what _get_connection gave: the rows are
\* those cur.fetchall() returned, handed over when the block is left.
FetchAsyncOn(g, sc, sql) ==
    [st |-> AsyncRelease(g.st, g.connected),
     err |-> IF g.err # NoErr THEN g.err
             ELSE IF sc.stage \in {"execute", "fetchall"} THEN sc.msg ELSE NoErr,
     connected |-> g.connected,
     executed |-> g.err = NoErr,
     described |-> g.err = NoErr /\ sc.stage # "execute",
     value |-> None,
     rows |-> IF g.err = NoErr /\ sc.stage \notin {"execute", "fetchall"}
              THEN Rows(sql) ELSE <<>>]

AttemptFetchAsync(st, e, sc, sql) ==
    FetchAsyncOn(AsyncGetConnection(st, e, sc), sc, sql)

AsyncInvalidate_Skipped(st) == st

\* self._token_manager.invalidate() in the except branch
AsyncInvalidate(st) == [st EXCEPT !.last_refresh = InvalidatedClock]

\* The try/except of execute_async and fetch_async around two attempts, and
\* the record of the call (closes: the connections released).
FinishAsync(op, sql, a1, a2) ==
    LET retry == Retried(a1)
        fin == IF retry THEN a2 ELSE a1
    IN  /\ token' = fin.st.token
        /\ last_refresh' = fin.st.last_refresh
        /\ token_src' = fin.st.token_src
        /\ last_success' = fin.st.last_success
        /\ live' = fin.st.live
        /\ call' = [op |-> op, sql |-> sql, err1 |-> a1.err,
                    err2 |-> IF retry THEN a2.err ELSE NoErr,
                    tries |-> IF retry THEN 2 ELSE 1,
                    executes |-> (IF a1.executed THEN 1 ELSE 0)
                                 + (IF retry /\ a2.executed THEN 1 ELSE 0),
                    connects1 |-> IF a1.connected THEN 1 ELSE 0,
                    connects2 |-> IF retry /\ a2.connected THEN 1 ELSE 0,
                    held |-> FALSE,
                    closes |-> live + (IF a1.connected THEN 1 ELSE 0)
                               + (IF retry /\ a2.connected THEN 1 ELSE 0)
                               - fin.st.live,
                    clock |-> IF retry THEN AsyncInvalidate(a1.st).last_refresh ELSE -1,
                    result |-> IF fin.err # NoErr THEN <<"raise", fin.err>>
                               ELSE <<"return", fin.value>>,
                    delivered |-> fin.rows,
                    fresh2 |-> retry /\ a2.st.oks > a1.st.oks,
                    descrs |-> (IF a1.described THEN 1 ELSE 0)
                               + (IF retry /\ a2.described THEN 1 ELSE 0),
                    arg |-> None]
        /\ UNCHANGED <<refresh_interval, workspace_client, instance_name,
                       use_env_fallback, ctor, now, ticks, obs, chain, conn,
                       connection_string, pg_config, pool, wh, utilVars, concVars>>

\* execute_async
ExecuteAsync ==
    \E sql \in ExecuteSqls, sc1 \in ExecuteScripts, e1 \in FirstEnvs :
        \E a1 \in {AttemptExecuteAsync(St, e1, sc1, sql)} :
        \E sc2 \in (IF Retried(a1) THEN ExecuteScripts ELSE {NoFail}),
           e2 \in (IF Retried(a1) THEN RetryEnvs ELSE {e1}) :
        \E a2 \in {AttemptExecuteAsync(AsyncInvalidate(a1.st), e2, sc2, sql)} :
            FinishAsync("execute_async", sql, a1, a2)

\* fetch_async
FetchAsync ==
    \E sql \in FetchSqls, sc1 \in AsyncFetchScripts, e1 \in FirstEnvs :
        \E a1 \in {AttemptFetchAsync(St, e1, sc1, sql)} :
        \E sc2 \in (IF Retried(a1) THEN AsyncFetchScripts ELSE {NoFail}),
           e2 \in (IF Retried(a1) THEN RetryEnvs ELSE {e1}) :
        \E a2 \in {AttemptFetchAsync(AsyncInvalidate(a1.st), e2, sc2, sql)} :
            FinishAsync("fetch_async", sql, a1, a2)

\* The synchronous entry points of the backend and the helpers of
\* LakebaseBackend built on them, called on an AsyncLakebaseBackend.
SyncHelpers ==
    {"async.execute", "async.fetch", "async.fetch_one", "async.fetch_value",
     "async.fetch_all", "async.save_table", "async.create_table"}

\* What the helper is called with: save_table with rows (in either mode),
\* with no rows, or with a class that is no dataclass.
HelperArgs(h) ==
    IF h = "async.save_table"
    THEN {"rows, append", "rows, overwrite", "no rows", "not a dataclass"}
    ELSE {None}

MsgUseExecuteAsync == "Use execute_async() for async backend"
MsgUseFetchAsync == "Use fetch_async() for async backend"
MsgNotDataclass == "is not a dataclass"

AsyncExecute_Silent == <<"return", 0>>

\* AsyncLakebaseBackend.execute
AsyncExecute == <<"raise", MsgUseExecuteAsync>>

\* AsyncLakebaseBackend.fetch
AsyncFetch == <<"raise", MsgUseFetchAsync>>

\* fetch_one, fetch_value and fetch_all call fetch; create_table calls
\* execute; save_table checks the class, returns if there are no rows and
\* calls execute otherwise.
SyncHelper(h, arg) ==
    CASE h = "async.execute" -> AsyncExecute
      [] h \in {"async.fetch", "async.fetch_one", "async.fetch_value",
                "async.fetch_all"} -> AsyncFetch
      [] h = "async.save_table" ->
            IF arg = "not a dataclass" THEN <<"raise", MsgNotDataclass>>
            ELSE IF arg = "no rows" THEN <<"return", None>>
            ELSE AsyncExecute
      [] OTHER -> AsyncExecute

SyncEntry ==
    \E h \in SyncHelpers : \E arg \in HelperArgs(h) :
        /\ call' = [NoCall EXCEPT !.op = h, !.arg = arg,
                                  !.result = SyncHelper(h, arg)]
        /\ UNCHANGED <<tmVars, now, ticks, obs, chain, conn, connection_string,
                       pg_config, live, pool, wh, utilVars, concVars>>

\* AsyncLakebaseBackend.__init__ with or without a pool and a pg_config.
InitAsync ==
    /\ token = None
    /\ last_refresh = 0
    /\ refresh_interval = TOKEN_REFRESH_INTERVAL
    /\ workspace_client = TRUE
    /\ instance_name = TRUE
    /\ ctor = "__init__"
    /\ use_env_fallback = TRUE
    /\ now \in StartTimes
    /\ ticks = 0
    /\ token_src = 0
    /\ last_success = -1
    /\ obs = [op |-> "init", prev |-> "init", prev_ret |-> None,
              prev_failed |-> FALSE, pre_token |-> None, age |-> "none",
              refreshes |-> 0, ok |-> FALSE, won |-> 0,
              ret |-> None, ws_failed |-> FALSE, env_valid |-> FALSE]
    /\ chain = NoChain
    /\ conn = NoConn
    /\ connection_string = None
    /\ pg_config \in BOOLEAN
    /\ call = NoCall
    /\ live = 0
    /\ pool \in BOOLEAN
    /\ wh = NoStatement
    /\ sv = NoSave
    /\ rt = NoRetry
    /\ tc = NoCache
    /\ cc = NoShared
    /\ esc = NoEscape
    /\ pgc = NoConfig
    /\ pc = NoThreads
    /\ bg_deadline = NoDeadline

NextAsync == TickPg \/ ExecuteAsync \/ FetchAsync \/ SyncEntry

SpecAsync == InitAsync /\ [][NextAsync]_vars

\* A sync backend and an async backend on one token manager.
NextFetch == TickPg \/ Fetch \/ FetchAsync \/ Close

\* The async backend over a pool.
InitFetch == InitAsync /\ pg_config /\ pool

SpecFetch == InitFetch /\ [][NextFetch]_vars

-----------------------------------------------------------------------------
(* StatementExecutionBackend._execute_statement *)

\* StatementState
StatementStates ==
    {"PENDING", "RUNNING", "SUCCEEDED", "FAILED", "CANCELED", "CLOSED"}
Unfinished == {"PENDING", "RUNNING"}

\* The timeouts backends are constructed with, in seconds.
Timeouts == {1, 2}

\* Half seconds in t seconds; time.sleep(0.5) is one.
HalfSeconds(t) == 2 * t
PollSleep == 1

\* The half seconds a call to the workspace takes beyond its waiting.
Latencies == {0, 1}

MsgTimeout == "Query timed out"
MsgQueryFailed == "Query failed"
MsgCancelFailed == "cancel_execution raised"

\* response.status.error.message, or none for a status without error
RemoteErrors == {None, "TABLE_OR_VIEW_NOT_FOUND"}

MsgUnknownError == "Unknown error"

ErrorMessage_Generic(error) == MsgUnknownError

\* response.status.error.message if response.status.error else ...
ErrorMessage(error) == IF error # None THEN error ELSE MsgUnknownError

\* c.type_name.value of the columns of a manifest
Manifests ==
    { <<"INT", "STRING">>, <<"DECIMAL(10,2)", "BOOLEAN">>,
      <<"DATE", "DOUBLE">>, <<"TIMESTAMP", "BIGINT">> }

\* sql_type.split("(")[0].upper()
BaseType(sql_type) ==
    IF sql_type = "DECIMAL(10,2)" THEN "DECIMAL" ELSE sql_type

\* TYPE_CONVERTERS
Converters ==
    [DATE |-> "_parse_date", TIMESTAMP |-> "_parse_timestamp",
     TIMESTAMP_NTZ |-> "_parse_timestamp", DECIMAL |-> "_parse_decimal",
     DOUBLE |-> "float", FLOAT |-> "float", INT |-> "int", BIGINT |-> "int",
     SMALLINT |-> "int", TINYINT |-> "int", BOOLEAN |-> "bool"]

\* get_type_converter
GetTypeConverter(sql_type) ==
    IF BaseType(sql_type) \in DOMAIN Converters
    THEN Converters[BaseType(sql_type)] ELSE None

\* The strings a converter accepts, of those a cell holds here.
Accepts(converter) ==
    CASE converter = "int" -> {"42"}
      [] converter = "float" -> {"42", "1.5"}
      [] converter = "_parse_decimal" -> {"42", "1.5"}
      [] converter = "_parse_date" -> {"2024-01-02"}
      [] converter = "_parse_timestamp" -> {"2024-01-02"}
      [] OTHER -> {"42", "1.5", "2024-01-02", "true", "abc"}

\* What a converter raises for a string it does not accept.
Rejects(converter) ==
    IF converter = "_parse_decimal" THEN "InvalidOperation" ELSE "ValueError"

\* except (ValueError, TypeError)
Handled == {"ValueError", "TypeError"}

\* The cells of a yielded row: a converted value, the raw string, or None.
Cell(kind, text) == [kind |-> kind, text |-> text]

\* converters[i](value), for a string the converter accepts
Converted(converter, value) ==
    IF converter = "bool"
    THEN Cell("bool", IF value = "true" THEN "True" ELSE "False")
    ELSE Cell(converter, value)

\* _convert_row, one cell; a failure the handler lets through is kept as
\* a cell of kind "raise".
ConvertCell(converter, value) ==
    IF value = None THEN Cell("None", "")
    ELSE IF converter = None THEN Cell("str", value)
    ELSE IF value \in Accepts(converter) THEN Converted(converter, value)
    ELSE IF Rejects(converter) \in Handled THEN Cell("str", value)
    ELSE Cell("raise", Rejects(converter))

\* _convert_row
ConvertRow(raw_row, manifest) ==
    [i \in 1 .. Len(raw_row) |->
        ConvertCell(GetTypeConverter(manifest[i]), raw_row[i])]

RowRaises(cells) == \E i \in 1 .. Len(cells) : cells[i].kind = "raise"

\* The rows of result.data_array the workspace sends.
RawRows ==
    { <<"42", "abc">>, <<"abc", "true">>, <<"2024-01-02", "1.5">>,
      <<None, "42">> }

\* result.data_array of a response or of a chunk
DataArrays ==
    {<<>>} \cup {<<r>> : r \in RawRows}
           \cup {<< <<"abc", "true">>, <<"2024-01-02", "1.5">> >>,
                 << <<None, "42">>, <<"42", "abc">> >>}

\* The number of chunks of a result, the inline one included.
ChunkCounts == {1, 2, 3}

\* next_chunk_index the workspace reports with chunk index
NextChunkIndex(index, chunks) == IF index + 1 < chunks THEN index + 1 ELSE -1

\* The rows of a chunk with their place in the result.
Numbered(data, index) ==
    [i \in 1 .. Len(data) |-> [raw |-> data[i], chunk |-> index, pos |-> i]]

\* The rows of a chunk before the first whose conversion raises.
RECURSIVE Good(_, _)
Good(rows, manifest) ==
    IF rows = <<>> \/ RowRaises(ConvertRow(Head(rows).raw, manifest))
    THEN <<>>
    ELSE <<[cells |-> ConvertRow(Head(rows).raw, manifest),
            chunk |-> Head(rows).chunk, pos |-> Head(rows).pos]>>
         \o Good(Tail(rows), manifest)

\* for raw_row in data_array: yield RowClass(*converted), and what follows:
\* the failure of a conversion, the end of the result, or the next chunk.
Yielding(w, rows, next) ==
    [w EXCEPT !.served = @ \o rows,
              !.yielded = @ \o Good(rows, w.manifest),
              !.next = next,
              !.pc = IF Len(Good(rows, w.manifest)) < Len(rows) \/ next = -1
                     THEN "done" ELSE "paging",
              !.result = IF Len(Good(rows, w.manifest)) < Len(rows)
                         THEN <<"raise", "InvalidOperation">> ELSE @]

\* time.time() - start > self._timeout
TimedOut(w) == w.elapsed > HalfSeconds(w.timeout)

whFrame == <<tmVars, now, ticks, obs, chain, conn, connection_string, pg_config,
             call, live, pool, utilVars, concVars>>

\* start = time.time() and execute_statement, which returns at once or when
\* wait_timeout is over, with a status or none and a statement id or none.
WhSubmit ==
    /\ wh.pc = "idle"
    /\ \E t \in Timeouts, l \in Latencies, waited \in BOOLEAN, id \in BOOLEAN,
          st \in StatementStates \cup {None}, op \in {"execute", "fetch"} :
           wh' = [NoStatement EXCEPT
                  !.pc = "polling", !.state = st,
                  !.elapsed = (IF waited THEN HalfSeconds(t) ELSE 0) + l,
                  !.timeout = t, !.has_id = id, !.op = op, !.submits = 1]
    /\ UNCHANGED whFrame

\* One turn of the loop within the timeout: sleep, get_statement
WhPoll ==
    /\ wh.pc = "polling"
    /\ wh.state \in Unfinished
    /\ ~TimedOut(wh)
    /\ \E l \in Latencies, st \in StatementStates \cup {None} :
           wh' = [wh EXCEPT !.state = st, !.elapsed = @ + PollSleep + l,
                            !.polls = @ + 1]
    /\ UNCHANGED whFrame

\* The turn of the loop past the timeout: cancel_execution if there is a
\* statement id, which returns or raises, then TimeoutError
WhTimeout ==
    /\ wh.pc = "polling"
    /\ wh.state \in Unfinished
    /\ TimedOut(wh)
    /\ \E cancelled \in BOOLEAN :
           wh' = [wh EXCEPT !.pc = "done",
                            !.cancels = IF wh.has_id THEN 1 ELSE 0,
                            !.result = IF wh.has_id /\ ~cancelled
                                       THEN <<"raise", MsgCancelFailed>>
                                       ELSE <<"raise", MsgTimeout>>]
    /\ UNCHANGED whFrame

\* After the loop: RuntimeError for FAILED, with the message of the
\* status's error if it has one; the response otherwise, with which execute
\* returns and fetch goes on.
WhFinish ==
    /\ wh.pc = "polling"
    /\ wh.state \notin Unfinished
    /\ \E error \in IF wh.state = "FAILED" THEN RemoteErrors ELSE {None} :
        wh' = [wh EXCEPT !.error = error,
                         !.pc = IF wh.state # "FAILED" /\ wh.op = "fetch"
                                THEN "manifest" ELSE "done",
                         !.result = IF wh.state = "FAILED"
                                    THEN <<"raise", MsgQueryFailed,
                                           ErrorMessage(error)>>
                                    ELSE <<"return", wh.state>>]
    /\ UNCHANGED whFrame

\* fetch with the response: nothing to yield without columns in the
\* manifest; else the rows of the first batch are converted and yielded.
WhFirstBatch ==
    /\ wh.pc = "manifest"
    /\ \E manifest \in Manifests \cup {<<>>}, data \in DataArrays,
          chunks \in ChunkCounts :
        wh' = IF manifest = <<>>
              THEN [wh EXCEPT !.pc = "done"]
              ELSE Yielding([wh EXCEPT !.manifest = manifest,
                                       !.chunks = chunks],
                            Numbered(data, 0), NextChunkIndex(0, chunks))
    /\ UNCHANGED whFrame

\* One turn of the pagination loop: get_statement_result_chunk_n with the
\* next chunk index, whose rows are converted and yielded.
WhNextChunk ==
    /\ wh.pc = "paging"
    /\ \E data \in DataArrays :
        wh' = Yielding([wh EXCEPT !.fetched = Append(@, wh.next)],
                       Numbered(data, wh.next),
                       NextChunkIndex(wh.next, wh.chunks))
    /\ UNCHANGED whFrame

\* StatementExecutionBackend.__init__
InitWh == InitAsync /\ pg_config /\ pool /\ now = 0

NextWh ==
    WhSubmit \/ WhPoll \/ WhTimeout \/ WhFinish \/ WhFirstBatch \/ WhNextChunk

SpecWh == InitWh /\ [][NextWh]_vars

-----------------------------------------------------------------------------
(* save_table of SqlBackend (warehouse) and of LakebaseBackend (Postgres) *)

\* mode
Modes == {"append", "overwrite", "replace"}

\* len(rows_list)
WarehouseRecords == {0, 1, 999, 1000, 1001, 2000, 2500}
PostgresRecords == {0, 1, 2, 3}

\* The call of execute that raises, counted from 1, or 0 if none does.
FailingExecutes == 0 .. 4

MsgSaveNotDataclass == "ValueError: is not a dataclass"
MsgExecuteFailed == "execute raised"

NoRows_Never(n) == FALSE

\* if not rows_list
NoRows(n) == n = 0

Overwrites_UnlessAppend(mode) == mode # "append"

\* if mode == "overwrite"
Overwrites(mode) == mode = "overwrite"

Truncate == [kind |-> "TRUNCATE", first |-> 0, last |-> 0]

\* The records first .. last in one INSERT
Insert(first, last) == [kind |-> "INSERT", first |-> first, last |-> last]

BatchEnd_Unclipped(start, n) == start + 1000

\* rows_list[batch_start : batch_start + 1000]
BatchEnd(start, n) == Min(start + 1000, n)

\* for batch_start in range(0, len(rows_list), 1000)
RECURSIVE Batches(_, _)
Batches(start, n) ==
    IF start >= n THEN <<>>
    ELSE <<Insert(start + 1, BatchEnd(start, n))>> \o Batches(start + 1000, n)

\* for row in rows_list
RowInserts(n) == [i \in 1 .. n |-> Insert(i, i)]

\* The calls of execute a call of save_table makes if none of them raises.
Planned(mode, n, inserts) ==
    IF NoRows(n) THEN <<>>
    ELSE (IF Overwrites(mode) THEN <<Truncate>> ELSE <<>>) \o inserts

\* save_table up to the call of execute that raises, or to its end
Saved(backend, mode, n, dataclass, planned, failing) ==
    [backend |-> backend, mode |-> mode, records |-> n, dataclass |-> dataclass,
     statements |-> IF ~dataclass THEN <<>>
                    ELSE IF failing \in 1 .. Len(planned)
                    THEN SubSeq(planned, 1, failing) ELSE planned,
     result |-> IF ~dataclass THEN MsgSaveNotDataclass
                ELSE IF failing \in 1 .. Len(planned)
                THEN MsgExecuteFailed ELSE "return"]

saveFrame == <<tmVars, now, ticks, obs, chain, conn, connection_string, pg_config,
               call, live, pool, wh, rt, libVars, concVars>>

\* SqlBackend.save_table on the StatementExecutionBackend
SaveTableWarehouse ==
    /\ \E mode \in Modes, n \in WarehouseRecords, dataclass \in BOOLEAN,
          failing \in FailingExecutes :
           sv' = Saved("warehouse", mode, n, dataclass,
                       Planned(mode, n, Batches(0, n)), failing)
    /\ UNCHANGED saveFrame

\* LakebaseBackend.save_table on the SyncLakebaseBackend
SaveTablePostgres ==
    /\ \E mode \in Modes, n \in PostgresRecords, dataclass \in BOOLEAN,
          failing \in FailingExecutes :
           sv' = Saved("postgres", mode, n, dataclass,
                       Planned(mode, n, RowInserts(n)), failing)
    /\ UNCHANGED saveFrame

InitSave == InitWh

NextSave == SaveTableWarehouse \/ SaveTablePostgres

SpecSave == InitSave /\ [][NextSave]_vars

-----------------------------------------------------------------------------
(* utils/retry.py: the retry decorator *)

\* The classes of the failures a wrapped function raises, each with the
\* classes it is an instance of.
FailureClasses == {"ConnectionError", "TimeoutError", "ValueError"}

Bases(c) ==
    CASE c = "ConnectionError" -> {"ConnectionError", "OSError", "Exception"}
      [] c = "TimeoutError" -> {"TimeoutError", "OSError", "Exception"}
      [] c = "ValueError" -> {"ValueError", "Exception"}
      [] OTHER -> {c, "Exception"}

\* retryable_exceptions: the default, TRANSIENT_ERRORS, DATABASE_ERRORS
RetryableSets ==
    { {"Exception"},
      {"ConnectionError", "TimeoutError", "OSError"},
      {"ConnectionError", "TimeoutError"} }

\* max_attempts, delays in milliseconds, exponential_base
AttemptBudgets == 0 .. 3
InitialDelays == {500, 1000}
MaxDelays == {1000, 3000}
ExponentialBases == {1, 2}

\* random.random(), in hundredths
Randoms == {0, 50, 99}

Success == "ok"

RECURSIVE Pow(_, _)
Pow(b, n) == IF n = 0 THEN 1 ELSE b * Pow(b, n - 1)

CalculateDelay_FromZero(r, attempt, random) ==
    IF r.jitter
    THEN (Min(r.initial_delay * Pow(r.exponential_base, attempt), r.max_delay)
            * (50 + random)) \div 100
    ELSE Min(r.initial_delay * Pow(r.exponential_base, attempt), r.max_delay)

\* RetryConfig.calculate_delay
CalculateDelay(r, attempt, random) ==
    IF r.jitter
    THEN (Min(r.initial_delay * Pow(r.exponential_base, attempt - 1), r.max_delay)
            * (50 + random)) \div 100
    ELSE Min(r.initial_delay * Pow(r.exponential_base, attempt - 1), r.max_delay)

Caught_Always(class, retryable) == TRUE

\* except cfg.retryable_exceptions as e
Caught(class, retryable) == Bases(class) \cap retryable # {}

\* if attempt == cfg.max_attempts
Exhausted(r) == r.attempt = r.max_attempts

Reraise_Synthetic(class, attempt) ==
    [kind |-> "raise", class |-> "RuntimeError", attempt |-> 0]

\* raise: the failure the attempt raised
Reraise(class, attempt) ==
    [kind |-> "raise", class |-> class, attempt |-> attempt]

Invoke_Twice(r, outcome) ==
    [r EXCEPT !.calls = @ + 2, !.outcomes = Append(@, outcome)]

\* func(*args, **kwargs), which returns or raises
Invoke(r, outcome) ==
    [r EXCEPT !.calls = @ + 1, !.outcomes = Append(@, outcome)]

retryFrame == <<tmVars, now, ticks, obs, chain, conn, connection_string, pg_config,
                call, live, pool, wh, sv, libVars, concVars>>

\* A call of sync_wrapper or async_wrapper enters the loop; with no attempt
\* to make it leaves it at once and raises RuntimeError.
RetryBegin ==
    /\ rt.pc \in {"idle", "done"}
    /\ \E style \in {"sync", "async"}, m \in AttemptBudgets,
          i \in InitialDelays, d \in MaxDelays, b \in ExponentialBases,
          j \in BOOLEAN, classes \in RetryableSets :
           rt' = [pc |-> IF m = 0 THEN "done" ELSE "running",
                  style |-> style, max_attempts |-> m, initial_delay |-> i,
                  max_delay |-> d, exponential_base |-> b, jitter |-> j,
                  retryable |-> classes, attempt |-> 1, calls |-> 0,
                  outcomes |-> <<>>, slept |-> <<>>,
                  result |-> IF m = 0
                             THEN [kind |-> "raise", class |-> "RuntimeError",
                                   attempt |-> 0]
                             ELSE NoRetry.result]
    /\ UNCHANGED retryFrame

\* One turn of the loop: the function is called; its value is returned, or
\* its failure leaves the wrapper, or the wrapper sleeps and goes on.
RetryAttempt ==
    /\ rt.pc = "running"
    /\ \E outcome \in {Success} \cup FailureClasses, random \in Randoms :
         LET called == Invoke(rt, outcome)
         IN  rt' = IF outcome = Success
                   THEN [called EXCEPT !.pc = "done",
                             !.result = [kind |-> "return", class |-> Success,
                                         attempt |-> rt.attempt]]
                   ELSE IF ~Caught(outcome, rt.retryable)
                   THEN [called EXCEPT !.pc = "done",
                             !.result = [kind |-> "raise", class |-> outcome,
                                         attempt |-> rt.attempt]]
                   ELSE IF Exhausted(rt)
                   THEN [called EXCEPT !.pc = "done",
                             !.result = Reraise(outcome, rt.attempt)]
                   ELSE [called EXCEPT !.attempt = @ + 1,
                             !.slept = Append(@, CalculateDelay(rt, rt.attempt,
                                         IF rt.jitter THEN random ELSE 0))]
    /\ UNCHANGED retryFrame

InitRetry == InitWh

NextRetry == RetryBegin \/ RetryAttempt

SpecRetry == InitRetry /\ [][NextRetry]_vars

-----------------------------------------------------------------------------
(* One OAuthTokenManager used by several threads *)

\* The answers of the collaborators to the refreshes of the threads.
ConcEnvs == PgEnvs

\* The thread t is inside _refresh_token.
InRefresh(t) == pc[t] \in {"refreshing", "starting"}

\* get_token up to the staleness test: t goes on into _refresh_token or to
\* the return statement.
CallGetToken(t) ==
    /\ pc[t] = "idle"
    /\ pc' = [pc EXCEPT ![t] =
                IF NeedsRefresh(token, last_refresh, refresh_interval, now)
                THEN "refreshing" ELSE "returning"]
    /\ UNCHANGED <<tmVars, now, ticks, obs, chain, pgVars, bg_deadline>>

\* The sleep of _background_refresh_loop
LoopSleep == 50 * 60

\* _refresh_token runs to its end in thread t: the strategy chain answers
\* and the fields are assigned.  After the initial refresh
\* start_background_refresh creates the task, which goes to sleep; after a
\* refresh in the worker thread the task awaiting it, if it still does, goes
\* to sleep again.
EndRefresh(t) ==
    /\ InRefresh(t)
    /\ \E e \in ConcEnvs :
           Refreshed(RefreshToken(token, last_refresh, workspace_client,
                                  instance_name, use_env_fallback, e, now))
    /\ LET resumes == t = Background \/ (t = Worker /\ pc[Background] = "awaiting")
       IN  /\ pc' = [x \in Threads |->
                        IF x = Background /\ resumes THEN "sleeping"
                        ELSE IF x # t THEN pc[x]
                        ELSE IF t = Worker THEN "idle"
                        ELSE "returning"]
           /\ bg_deadline' = IF resumes THEN now + LoopSleep ELSE bg_deadline
    /\ UNCHANGED <<refresh_interval, workspace_client, instance_name,
                   use_env_fallback, ctor, now, ticks, obs, chain, pgVars>>

\* get_token: `return self._token or ""`
ReturnToken(t) ==
    /\ pc[t] = "returning"
    /\ pc' = [pc EXCEPT ![t] = "idle"]
    /\ UNCHANGED <<tmVars, now, ticks, obs, chain, pgVars, bg_deadline>>

\* start_background_refresh up to its call of _refresh_token
StartBackgroundRefresh ==
    /\ pc[Background] = "unstarted"
    /\ pc' = [pc EXCEPT ![Background] = "starting"]
    /\ UNCHANGED <<tmVars, now, ticks, obs, chain, pgVars, bg_deadline>>

\* _background_refresh_loop: the sleep is over, _refresh_token starts in a
\* worker thread (asyncio.to_thread) and the task awaits it.
BackgroundWake ==
    /\ pc[Background] = "sleeping"
    /\ now >= bg_deadline
    /\ pc[Worker] = "idle"
    /\ pc' = [pc EXCEPT ![Background] = "awaiting", ![Worker] = "refreshing"]
    /\ bg_deadline' = NoDeadline
    /\ UNCHANGED <<tmVars, now, ticks, obs, chain, pgVars>>

\* stop_background_refresh up to `await self._refresh_task`: the task is
\* cancelled in its sleep or while it awaits the worker thread.
StopBackgroundRefresh ==
    /\ pc[Background] \in {"sleeping", "awaiting"}
    /\ pc' = [pc EXCEPT ![Background] = "cancelled"]
    /\ bg_deadline' = NoDeadline
    /\ UNCHANGED <<tmVars, now, ticks, obs, chain, pgVars>>

TaskExit_SwallowsCancel ==
    /\ pc[Background] = "cancelled"
    /\ pc' = [pc EXCEPT ![Background] = "sleeping"]
    /\ bg_deadline' = now + LoopSleep
    /\ UNCHANGED <<tmVars, now, ticks, obs, chain, pgVars>>

\* _background_refresh_loop: CancelledError is raised at the await, caught,
\* and the loop is left; the worker thread, if one runs, is not stopped.
TaskExit ==
    /\ pc[Background] = "cancelled"
    /\ pc' = [pc EXCEPT ![Background] = "exited"]
    /\ UNCHANGED <<tmVars, now, ticks, obs, chain, pgVars, bg_deadline>>

\* stop_background_refresh after the await: `self._refresh_task = None`
StopReturns ==
    /\ pc[Background] = "exited"
    /\ pc' = [pc EXCEPT ![Background] = "unstarted"]
    /\ UNCHANGED <<tmVars, now, ticks, obs, chain, pgVars, bg_deadline>>

\* The refresh intervals managers are constructed with.
RefreshIntervals == {TOKEN_REFRESH_INTERVAL, 10 * 60}

\* One manager built by __init__ with a workspace client and a refresh
\* interval, no thread in it yet.
InitConc ==
    /\ token = None
    /\ last_refresh = 0
    /\ refresh_interval \in RefreshIntervals
    /\ workspace_client = TRUE
    /\ instance_name = TRUE
    /\ ctor = "__init__"
    /\ use_env_fallback = TRUE
    /\ now \in StartTimes
    /\ ticks = 0
    /\ token_src = 0
    /\ last_success = -1
    /\ obs = [op |-> "init", prev |-> "init", prev_ret |-> None,
              prev_failed |-> FALSE, pre_token |-> None, age |-> "none",
              refreshes |-> 0, ok |-> FALSE, won |-> 0,
              ret |-> None, ws_failed |-> FALSE, env_valid |-> FALSE]
    /\ chain = NoChain
    /\ conn = NoConn
    /\ connection_string = None
    /\ pg_config = TRUE
    /\ call = NoCall
    /\ live = 0
    /\ pool = FALSE
    /\ wh = NoStatement
    /\ sv = NoSave
    /\ rt = NoRetry
    /\ tc = NoCache
    /\ cc = NoShared
    /\ esc = NoEscape
    /\ pgc = NoConfig
    /\ pc = NoThreads
    /\ bg_deadline = NoDeadline

NextConc ==
    \/ Tick
    \/ \E t \in Callers : CallGetToken(t) \/ ReturnToken(t)
    \/ \E t \in Threads : EndRefresh(t)
    \/ StartBackgroundRefresh
    \/ BackgroundWake
    \/ StopBackgroundRefresh
    \/ TaskExit
    \/ StopReturns

SpecConc == InitConc /\ [][NextConc]_vars

\* The event loop runs a task that is ready: the cancelled task, and the
\* coroutine awaiting it.
SpecConcLive ==
    InitConc /\ [][NextConc]_vars /\ WF_vars(TaskExit) /\ WF_vars(StopReturns)

-----------------------------------------------------------------------------
(* Token manager properties, checked under Spec *)

\* C4: two get_token calls with no operation between them other than the
\* passing of time, the first of which left no failed refresh behind, the
\* second made within refresh_interval of the last successful refresh: the
\* second call runs no refresh and returns what the first returned.
C4_FreshTokenReused ==
    (obs.op = "get_token" /\ obs.prev = "get_token" /\ ~obs.prev_failed
        /\ obs.age = "within")
    => (obs.refreshes = 0 /\ obs.ret = obs.prev_ret)

\* A second get_token, made one full interval after the refresh, reuses a
\* non-empty token.
C4_Witness ==
    /\ obs.op = "get_token" /\ obs.prev = "get_token" /\ ~obs.prev_failed
    /\ obs.age = "within" /\ now = last_success + refresh_interval
    /\ obs.refreshes = 0 /\ Truthy(obs.ret) /\ obs.ret = obs.prev_ret

\* C5: a get_token call made more than refresh_interval after the last
\* successful refresh runs _refresh_token exactly once and, when that run
\* succeeds, returns the token it produced.
C5_AgedTokenRefreshedOnce ==
    (obs.op = "get_token" /\ obs.age = "aged")
    => (obs.refreshes = 1 /\ (obs.ok => (obs.ret = token /\ token_src = obs.won)))

C5_Witness ==
    /\ obs.op = "get_token" /\ obs.age = "aged" /\ obs.refreshes = 1
    /\ obs.ok /\ Truthy(obs.pre_token) /\ obs.ret # obs.pre_token

\* C6: invalidate() followed by get_token() always runs a refresh, whatever
\* the cached token, the time since the last refresh and the clock value.
C6_InvalidateForcesRefresh ==
    (obs.op = "get_token" /\ obs.prev = "invalidate") => obs.refreshes = 1

\* C7 as stated: with the cached token absent or older than the refresh
\* interval, get_token runs a refresh and returns the refreshed token, or the
\* empty string if every strategy fails.
C7_EmptyStringOnFailure ==
    (obs.op = "get_token" /\ (obs.pre_token = None \/ obs.age = "aged"))
    => /\ obs.refreshes = 1
       /\ obs.ok => obs.ret = token
       /\ ~obs.ok => obs.ret = ""

\* C7 as amended: with the cached token absent or older than the refresh
\* interval, get_token runs a refresh and returns the refreshed token; if
\* every strategy fails it returns the token cached before the call, and the
\* empty string only when there is none.
C7_StaleOrEmptyOnFailure ==
    (obs.op = "get_token" /\ (obs.pre_token = None \/ obs.age = "aged"))
    => /\ obs.refreshes = 1
       /\ obs.ok => obs.ret = token
       /\ ~obs.ok => obs.ret = (IF obs.pre_token = None THEN "" ELSE obs.pre_token)

\* An aged, non-empty token is returned by a get_token whose refresh failed.
C7_Witness ==
    /\ obs.op = "get_token" /\ obs.age = "aged" /\ obs.refreshes = 1
    /\ ~obs.ok /\ Truthy(obs.pre_token) /\ obs.ret = obs.pre_token

\* C8: invalidate() changes the freshness clock and nothing else of the
\* manager (the cached token stays), and a get_token right after it whose
\* forced refresh fails returns that cached value.
C8_InvalidateKeepsToken ==
    /\ [][(obs'.op = "invalidate" /\ obs' # obs)
            => UNCHANGED <<token, refresh_interval, workspace_client,
                           instance_name, use_env_fallback>>]_vars
    /\ []((obs.op = "invalidate") => token = obs.pre_token)
    /\ []((obs.op = "get_token" /\ obs.prev = "invalidate"
             /\ obs.refreshes = 1 /\ ~obs.ok)
          => (token = obs.pre_token
              /\ obs.ret = (IF obs.pre_token = None THEN "" ELSE obs.pre_token)))

C8_Witness ==
    /\ obs.op = "get_token" /\ obs.prev = "invalidate"
    /\ obs.refreshes = 1 /\ ~obs.ok /\ obs.age = "within"
    /\ Truthy(obs.pre_token) /\ obs.ret = obs.pre_token

\* C10: a manager created by from_workspace_client never holds a token taken
\* from PGPASSWORD or DATABRICKS_TOKEN, and a refresh of it in which every
\* workspace-client strategy fails returns False and leaves the token alone.
C10_NoEnvFallback ==
    ctor = "from_workspace_client"
    => /\ token_src \notin {4, 5}
       /\ (obs.refreshes = 1 /\ obs.ws_failed) => (~obs.ok /\ token = obs.pre_token)

\* Such a refresh fails although the environment holds acceptable values.
C10_Witness ==
    /\ ctor = "from_workspace_client" /\ obs.refreshes = 1
    /\ obs.ws_failed /\ obs.env_valid /\ ~obs.ok /\ Truthy(token)

-----------------------------------------------------------------------------
(* The strategy chain, checked under SpecRefresh *)

\* Whether the manager's configuration lets strategy s be attempted, whether
\* the collaborators' answers e make it succeed, and the token it yields.
Applicable(s) ==
    CASE s = 1 -> workspace_client /\ instance_name
      [] s \in {2, 3} -> workspace_client
      [] OTHER -> use_env_fallback

Succeeds(s, e) ==
    CASE s = 1 -> e.cred \in {"cred-A", "cred-B"}
      [] s = 2 -> e.oauth = "oauth-A"
      [] s = 3 -> e.hdr \in {<<"Bearer ", "">>, <<"Bearer ", "hdr-A">>}
      [] s = 4 -> e.pg = "pgpw-21-chars-xxxxxxx"
      [] OTHER -> e.db = "dapi-env"

Yields(s, e) ==
    CASE s = 1 -> e.cred [] s = 2 -> e.oauth [] s = 3 -> e.hdr[2]
      [] s = 4 -> e.pg [] OTHER -> e.db

Attempted(s) == \E i \in 1..Len(chain.tried) : chain.tried[i] = s

\* C9: a refresh attempts its strategies in the order 1..5; the first one
\* that succeeds sets the token and ends the run, every applicable strategy
\* before it was attempted and failed, and none after it is attempted.
C9_FirstSuccessWins ==
    chain # NoChain
    => /\ \A i \in 1..(Len(chain.tried) - 1) : chain.tried[i] < chain.tried[i + 1]
       /\ \A s \in 1..5 : Attempted(s) => Applicable(s)
       /\ \A s \in 1..5 :
            (Applicable(s) /\ (chain.won = 0 \/ s < chain.won))
            => (Attempted(s) /\ ~Succeeds(s, chain.env))
       /\ chain.won # 0
            => /\ Attempted(chain.won) /\ Succeeds(chain.won, chain.env)
               /\ token = Yields(chain.won, chain.env)
               /\ \A s \in 1..5 : s > chain.won => ~Attempted(s)
       /\ chain.won = 0 => token = chain.pre_token

\* PGPASSWORD wins after the three workspace strategies failed, and
\* DATABRICKS_TOKEN, which would have succeeded, is not attempted.
C9_Witness ==
    /\ chain # NoChain /\ chain.won = 4 /\ chain.tried = <<1, 2, 3, 4>>
    /\ chain.env.db = "dapi-env" /\ token = chain.env.pg


-----------------------------------------------------------------------------
(* The retry protocol of the synchronous backend, checked under SpecPg *)

\* The exception messages of the model that contain "authentication" or
\* "password", in whatever case.
AuthMessages == {"password authentication failed", "PASSWORD EXPIRED"}

\* C2: when the first attempt of execute raises an auth error, the backend
\* closes the connection it holds, resets the token manager's freshness
\* clock and attempts the statement a second and last time; when that
\* attempt succeeds, the call returns the statement's row count, having
\* opened exactly one new connection for it.
C2_AuthErrorRetriedOnce ==
    (call.op = "execute" /\ call.err1 \in AuthMessages) =>
        /\ call.tries = 2
        /\ call.closes = (IF call.held THEN 1 ELSE 0)
        /\ call.clock = 0
        /\ call.err2 = NoErr =>
            /\ call.result = <<"return", RowCount(call.sql)>>
            /\ call.connects2 = 1

\* An execute whose first attempt failed on a held connection with an auth
\* error in upper case and whose retry succeeded.
C2_Witness ==
    /\ call.op = "execute"
    /\ call.err1 = "PASSWORD EXPIRED"
    /\ call.held
    /\ call.err2 = NoErr
    /\ call.result = <<"return", 3>>

\* C3: in execute and fetch, an exception that is no auth error is raised
\* to the caller as it is, after one attempt, with no connection closed or
\* opened for a retry and the freshness clock not reset; an exception of the
\* retry is raised to the caller as it is; the statement is attempted at
\* most twice.
C3_OtherErrorsPropagate ==
    call.op \in {"execute", "fetch"} =>
        /\ (call.err1 # NoErr /\ call.err1 \notin AuthMessages) =>
            /\ call.result = <<"raise", call.err1>>
            /\ call.tries = 1
            /\ call.closes = 0
            /\ call.connects2 = 0
            /\ call.clock = -1
        /\ (call.err1 \in AuthMessages /\ call.err2 # NoErr) =>
            /\ call.result = <<"raise", call.err2>>
            /\ call.tries = 2
        /\ call.tries <= 2
        /\ call.executes <= 2

\* A fetch that failed on a held connection with an error that is no auth
\* error, raised to the caller.
C3_Witness ==
    /\ call.op = "fetch"
    /\ call.err1 = "auth timeout"
    /\ call.held
    /\ call.result = <<"raise", "auth timeout">>

\* C14: the connection a backend without a static connection string opens
\* for the retry carries a token obtained by a refresh that ran after the
\* auth failure.
C14_RetryUsesFreshToken ==
    (/\ call.op \in {"execute", "fetch"}
     /\ connection_string = None
     /\ call.tries = 2
     /\ call.connects2 = 1)
    => call.fresh2

\* C15: the backend has at most one connection open at the server, the one
\* it holds: a connection is opened only when none is held, and the one an
\* auth error or close replaces is closed first.
C15_AtMostOneLiveConnection ==
    /\ live <= 1
    /\ conn.open <=> live = 1

\* A call that closed the connection it held and opened its successor.
C15_Witness ==
    /\ call.op \in {"execute", "fetch"}
    /\ call.closes = 1
    /\ call.connects2 = 1
    /\ live = 1

\* C16: the password slot of the connection string of every connection the
\* backend opens is what get_token returned at connect time.
C16_PasswordIsCurrentToken ==
    conn.open => conn.password = conn.token

-----------------------------------------------------------------------------
(* The asynchronous backend, checked under SpecAsync and SpecFetch *)

\* C17: execute_async and fetch_async reset the freshness clock and make a
\* second and last attempt on a newly acquired connection when the first
\* attempt raised an auth error; any other exception, and an exception of
\* the second attempt, is raised to the caller; every connection acquired
\* is released; the statement is attempted at most twice.
C17_AsyncRetriesOnce ==
    call.op \in {"execute_async", "fetch_async"} =>
        /\ call.err1 \in AuthMessages =>
            /\ call.tries = 2
            /\ call.clock = 0
            /\ call.err2 = NoErr =>
                (call.result[1] = "return" /\ call.connects2 = 1)
            /\ call.err2 # NoErr => call.result = <<"raise", call.err2>>
        /\ (call.err1 # NoErr /\ call.err1 \notin AuthMessages) =>
            /\ call.result = <<"raise", call.err1>>
            /\ call.tries = 1
            /\ call.connects2 = 0
            /\ call.clock = -1
        /\ call.closes = call.connects1 + call.connects2
        /\ call.tries <= 2
        /\ call.executes <= 2

\* A fetch_async whose first attempt raised an auth error on a connection it
\* had acquired and whose retry succeeded on a second one.
C17_Witness ==
    /\ call.op = "fetch_async"
    /\ call.err1 = "password authentication failed"
    /\ call.err2 = NoErr
    /\ call.connects1 = 1
    /\ call.connects2 = 1

\* C18 as stated: every synchronous entry point and helper called on an
\* AsyncLakebaseBackend raises, with no connection acquired and no
\* statement sent.
C18_SyncEntryPointsRaise ==
    call.op \in SyncHelpers =>
        /\ call.result[1] = "raise"
        /\ call.connects1 = 0
        /\ call.executes = 0
        /\ call.tries = 0

\* C18, amended: they raise, with no connection acquired and no statement
\* sent, except save_table called with no rows, which returns having done
\* nothing.
C18_SyncEntryPointsRaiseUnlessNoRows ==
    call.op \in SyncHelpers =>
        /\ call.result[1] = "raise"
            <=> ~(call.op = "async.save_table" /\ call.arg = "no rows")
        /\ call.connects1 = 0
        /\ call.executes = 0
        /\ call.tries = 0

\* create_table called on the async backend raised.
C18_Witness ==
    /\ call.op = "async.create_table"
    /\ call.result = <<"raise", MsgUseExecuteAsync>>

-----------------------------------------------------------------------------
(* Concurrency of the token manager, checked under SpecConc *)

\* C1: at no time are two executions of _refresh_token in progress on the
\* same manager: callers of get_token and the background refresh task that
\* see a stale or absent token serialize behind a single refresh.
C1_SingleRefreshInProgress ==
    Cardinality({t \in Threads : InRefresh(t)}) <= 1

\* C11: the refresh loop sleeps the manager's refresh interval before each
\* refresh: whenever the task goes to sleep, after the initial refresh or
\* after a refresh of the loop, it sleeps until refresh_interval from then.
C11_SleepsRefreshInterval ==
    [][(pc'[Background] = "sleeping" /\ pc[Background] # "sleeping")
        => bg_deadline' = now' + refresh_interval']_vars

\* C12: once the task is cancelled, in its sleep or in the middle of a
\* refresh, it leaves its loop without raising, and stop_background_refresh
\* then returns with no task registered.
C12_CancelledTaskExits ==
    /\ (pc[Background] = "cancelled") ~> (pc[Background] = "exited")
    /\ (pc[Background] = "exited") ~> (pc[Background] = "unstarted")

\* The task has left its loop, cancelled in the middle of a refresh.
C12_Witness == pc[Background] = "exited" /\ pc[Worker] = "refreshing"

\* C13: once stop_background_refresh has returned, no refresh the loop
\* started is still running.
C13_NoRefreshAfterStop ==
    pc[Background] = "unstarted" => pc[Worker] = "idle"

-----------------------------------------------------------------------------
(* The warehouse backend, checked under SpecWh *)

\* C20: a call that finds the statement PENDING or RUNNING past the timeout
\* issues one cancel for it and raises a timeout error; no cancel is issued
\* otherwise; the call polls at most once per half second of the timeout
\* and once more.
C20_TimeoutCancelsAndRaises ==
    /\ (wh.pc = "done" /\ wh.state \in {"PENDING", "RUNNING"}) =>
        /\ wh.elapsed > 2 * wh.timeout
        /\ wh.has_id => wh.cancels = 1
        /\ wh.result = <<"raise", MsgTimeout>>
    /\ wh.cancels > 0 =>
        (wh.pc = "done" /\ wh.state \in {"PENDING", "RUNNING"}
            /\ wh.elapsed > 2 * wh.timeout)
    /\ wh.polls <= 2 * wh.timeout + 1

-----------------------------------------------------------------------------
(* The retry decorator, checked under SpecRetry *)

\* The attempts of the call of which every one before the last failed with
\* a failure the wrapper catches.
RetryableBefore(n) ==
    \A i \in 1 .. (n - 1) :
        rt.outcomes[i] # Success /\ Caught(rt.outcomes[i], rt.retryable)

\* C27: with max_attempts = m >= 1, a function that fails k < m times with
\* retryable failures and then succeeds is called exactly k + 1 times and the
\* wrapper returns the value of that last call.
C27_SucceedsAfterRetryableFailures ==
    \A k \in 0 .. 3 :
        (/\ rt.max_attempts >= 1
         /\ k < rt.max_attempts
         /\ Len(rt.outcomes) >= k + 1
         /\ rt.outcomes[k + 1] = Success
         /\ RetryableBefore(k + 1))
        => /\ rt.pc = "done"
           /\ rt.calls = k + 1
           /\ Len(rt.outcomes) = k + 1
           /\ rt.result = [kind |-> "return", class |-> Success,
                           attempt |-> k + 1]

C27_Witness ==
    /\ rt.pc = "done"
    /\ rt.max_attempts = 3
    /\ rt.outcomes = <<"ConnectionError", "TimeoutError", Success>>
    /\ rt.calls = 3
    /\ rt.result.kind = "return"

\* C28: a failure that is no instance of a retryable class leaves the wrapper
\* from the attempt that raised it: it is the result of the call, no sleep
\* follows it and the function is not called again.
C28_NonRetryablePropagates ==
    \A i \in 1 .. Len(rt.outcomes) :
        (rt.outcomes[i] # Success
            /\ Bases(rt.outcomes[i]) \cap rt.retryable = {})
        => /\ rt.pc = "done"
           /\ i = Len(rt.outcomes)
           /\ rt.calls = i
           /\ Len(rt.slept) = i - 1
           /\ rt.result = [kind |-> "raise", class |-> rt.outcomes[i],
                           attempt |-> i]

C28_Witness ==
    /\ rt.pc = "done"
    /\ rt.max_attempts = 3
    /\ rt.retryable = {"ConnectionError", "TimeoutError"}
    /\ rt.outcomes = <<"ConnectionError", "ValueError">>
    /\ rt.calls = 2

\* C29: when max_attempts >= 1 and every attempt fails with a retryable
\* failure, the function is called exactly max_attempts times, the call ends
\* with the failure the last attempt raised, and the wrapper has slept only
\* between attempts.
C29_ExhaustionReraisesLast ==
    (/\ rt.max_attempts >= 1
     /\ Len(rt.outcomes) = rt.max_attempts
     /\ RetryableBefore(rt.max_attempts + 1))
    => /\ rt.pc = "done"
       /\ rt.calls = rt.max_attempts
       /\ Len(rt.slept) = rt.max_attempts - 1
       /\ rt.result = [kind |-> "raise",
                       class |-> rt.outcomes[rt.max_attempts],
                       attempt |-> rt.max_attempts]

C29_Witness ==
    /\ rt.pc = "done"
    /\ rt.max_attempts = 3
    /\ rt.outcomes = <<"TimeoutError", "TimeoutError", "ConnectionError">>
    /\ rt.result.class = "ConnectionError"

\* initial_delay * exponential_base^(n - 1), written out for the attempts
\* a call can sleep after.
Backoff(n) ==
    CASE n = 1 -> rt.initial_delay
      [] n = 2 -> rt.initial_delay * rt.exponential_base
      [] OTHER -> rt.initial_delay * rt.exponential_base * rt.exponential_base

Capped(n) == IF Backoff(n) < rt.max_delay THEN Backoff(n) ELSE rt.max_delay

\* C30: the delay slept after attempt n is min(initial_delay *
\* exponential_base^(n - 1), max_delay) without jitter and between half
\* and one and a half times that with jitter; it is never negative and
\* never above one and a half times max_delay.
C30_DelayIsCappedBackoff ==
    \A n \in 1 .. Len(rt.slept) :
        /\ ~rt.jitter => rt.slept[n] = Capped(n)
        /\ rt.jitter => (2 * rt.slept[n] >= Capped(n)
                            /\ 2 * rt.slept[n] <= 3 * Capped(n))
        /\ rt.slept[n] >= 0
        /\ 2 * rt.slept[n] <= 3 * rt.max_delay

C30_Witness ==
    /\ Len(rt.slept) = 2
    /\ rt.jitter
    /\ rt.initial_delay = 1000 /\ rt.exponential_base = 2 /\ rt.max_delay = 3000
    /\ rt.slept[2] = 2980

-----------------------------------------------------------------------------
(* save_table, checked under SpecSave *)

\* The statements of the call of the given kind.
Issued(kind) == {i \in 1 .. Len(sv.statements) : sv.statements[i].kind = kind}

\* C24: save_table called with a dataclass type and at least one record
\* issues, with mode "overwrite", exactly one TRUNCATE and issues it first;
\* with any other mode it issues no TRUNCATE, only INSERTs.  On both backends.
C24_TruncateOnlyOnOverwrite ==
    (sv.backend # None /\ sv.dataclass /\ sv.records > 0) =>
        IF sv.mode = "overwrite"
        THEN Issued("TRUNCATE") = {1}
        ELSE /\ Issued("TRUNCATE") = {}
             /\ Issued("INSERT") = 1 .. Len(sv.statements)

C24_Witness ==
    /\ sv.backend = "postgres"
    /\ sv.mode = "overwrite"
    /\ sv.records = 2
    /\ sv.result = "return"
    /\ Len(sv.statements) = 3

\* C25: a warehouse save_table that returns has inserted its n records in
\* ceil(n / 1000) INSERTs of at most 1000 records each, which taken in order
\* hold records 1 .. n; with mode "overwrite" and 2500 records the statements
\* are a TRUNCATE and three INSERTs of 1000, 1000 and 500 records.
C25_BatchesOfThousand ==
    (sv.backend = "warehouse" /\ sv.dataclass /\ sv.result = "return") =>
        LET ins == SelectSeq(sv.statements, LAMBDA st : st.kind = "INSERT")
        IN  /\ Len(ins) = (sv.records + 999) \div 1000
            /\ \A k \in 1 .. Len(ins) :
                /\ ins[k].first = (IF k = 1 THEN 1 ELSE ins[k - 1].last + 1)
                /\ ins[k].last >= ins[k].first
                /\ ins[k].last - ins[k].first + 1 <= 1000
            /\ Len(ins) > 0 => ins[Len(ins)].last = sv.records
            /\ (sv.mode = "overwrite" /\ sv.records = 2500) =>
                sv.statements = <<Truncate, Insert(1, 1000),
                                  Insert(1001, 2000), Insert(2001, 2500)>>

C25_Witness ==
    /\ sv.backend = "warehouse"
    /\ sv.mode = "overwrite"
    /\ sv.records = 2500
    /\ sv.result = "return"
    /\ Len(sv.statements) = 4

\* C26: save_table called with a dataclass type and no record returns
\* without an error and issues no statement, whatever the mode, on both
\* backends.
C26_EmptySaveIsNoOp ==
    (sv.backend # None /\ sv.dataclass /\ sv.records = 0) =>
        (sv.statements = <<>> /\ sv.result = "return")

C26_Witness ==
    /\ sv.backend = "warehouse"
    /\ sv.mode = "overwrite"
    /\ sv.dataclass
    /\ sv.records = 0
    /\ sv.result = "return"

-----------------------------------------------------------------------------
(* execute and fetch of the warehouse backend, checked under SpecWh *)

\* C21: a call of execute or fetch whose statement ends FAILED raises an
\* error with the message the workspace reported, or with the generic
\* message if it reported no error; it has yielded no row, asked for no
\* chunk and submitted the statement once.
C21_FailedRaisesRemoteMessage ==
    (wh.pc = "done" /\ wh.state = "FAILED") =>
        /\ wh.result = <<"raise", "Query failed",
                         IF wh.error # None THEN wh.error ELSE "Unknown error">>
        /\ wh.yielded = <<>>
        /\ wh.fetched = <<>>
        /\ wh.submits = 1

C21_Witness ==
    /\ wh.pc = "done"
    /\ wh.op = "fetch"
    /\ wh.state = "FAILED"
    /\ wh.polls > 0
    /\ wh.error = "TABLE_OR_VIEW_NOT_FOUND"
    /\ wh.result = <<"raise", MsgQueryFailed, "TABLE_OR_VIEW_NOT_FOUND">>

\* A fetch of a statement that succeeded with columns in its manifest has
\* come to its end.
FetchEnded ==
    /\ wh.op = "fetch"
    /\ wh.pc = "done"
    /\ wh.state \notin {"PENDING", "RUNNING", "FAILED"}
    /\ wh.manifest # <<>>

\* C22: a fetch that has come to its end has asked for the chunks after
\* the inline one by index, in order and once each, and has yielded every
\* row of every chunk once, in the order of the result.
C22_EveryChunkRowYieldedOnce ==
    FetchEnded =>
        /\ wh.fetched = [i \in 1 .. (wh.chunks - 1) |-> i]
        /\ Len(wh.yielded) = Len(wh.served)
        /\ \A i \in 1 .. Len(wh.yielded) :
            /\ wh.yielded[i].chunk = wh.served[i].chunk
            /\ wh.yielded[i].pos = wh.served[i].pos

\* C23: every row the workspace sent is yielded with as many cells as it
\* has; a cell whose conversion fails is the raw string, the others are
\* converted, and the fetch does not end in an error of a conversion.
C23_ConversionFailureKeepsRawCell ==
    /\ FetchEnded => wh.result[1] = "return"
    /\ (wh.pc \in {"paging", "done"} /\ wh.manifest # <<>>) =>
        /\ Len(wh.yielded) = Len(wh.served)
        /\ \A i \in 1 .. Len(wh.yielded) :
            /\ Len(wh.yielded[i].cells) = Len(wh.served[i].raw)
            /\ \A j \in 1 .. Len(wh.served[i].raw) :
                LET value == wh.served[i].raw[j]
                    converter == GetTypeConverter(wh.manifest[j])
                IN  wh.yielded[i].cells[j] =
                        IF value = None THEN Cell("None", "")
                        ELSE IF converter # None /\ value \in Accepts(converter)
                        THEN Converted(converter, value)
                        ELSE Cell("str", value)

\* C37: a call of execute or fetch that comes to its end without raising
\* has found its statement SUCCEEDED; a statement that ends in any other
\* state (FAILED, CANCELED, CLOSED) makes the call raise.
C37_ReturnsOnlyOnSucceeded ==
    (wh.pc \in {"manifest", "paging", "done"} /\ wh.result[1] = "return") =>
        wh.state = "SUCCEEDED"

-----------------------------------------------------------------------------
(* The rows of one call of SyncLakebaseBackend.fetch, checked under SpecPg *)

\* C38: the rows one call of fetch hands to its caller are rows of a single
\* execution of the statement, each handed over once and in order: all of
\* them when the call returns, the first of them when it raises; the retry
\* after an auth error does not hand over again rows that were already
\* yielded.
C38_RowsOfOneExecution ==
    call.op = "fetch" =>
        /\ Len(call.delivered) <= Len(Rows(call.sql))
        /\ call.delivered = SubSeq(Rows(call.sql), 1, Len(call.delivered))
        /\ call.result[1] = "return" => call.delivered = Rows(call.sql)

-----------------------------------------------------------------------------
(* A refresh in which every strategy fails, checked under Spec *)

\* A step that is a call of the manager: neither the clock moves nor the
\* workspace client is attached; the history names the operation.
ManagerCall == ticks' = ticks /\ workspace_client' = workspace_client

\* A step in which _refresh_token ran and no strategy gave a token / one did.
RefreshFailed == ManagerCall /\ obs'.refreshes = 1 /\ ~obs'.ok
RefreshSucceeded == ManagerCall /\ obs'.refreshes = 1 /\ obs'.ok

\* The staleness test of get_token on the fields as they are.
Stale == NeedsRefresh(token, last_refresh, refresh_interval, now)

\* C39: a refresh in which every strategy fails changes neither the token
\* nor the freshness clock; a stale token stays stale over every step that
\* is no successful refresh, and every get_token that finds it stale runs a
\* refresh; the freshness clock changes only in a successful refresh, to the
\* time of that refresh, and in invalidate, to its reset value.
C39_FailedRefreshStaysStale ==
    [][/\ RefreshFailed => (token' = token /\ last_refresh' = last_refresh)
       /\ (Stale /\ ~RefreshSucceeded) => Stale'
       /\ (Stale /\ ManagerCall /\ obs'.op = "get_token") => obs'.refreshes = 1
       /\ last_refresh' # last_refresh =>
            \/ RefreshSucceeded /\ last_refresh' = now
            \/ /\ ManagerCall
               /\ obs'.op = "invalidate"
               /\ last_refresh' = InvalidatedClock]_vars

\* Two calls of get_token in a row found the cached token aged, ran a
\* refresh and saw every strategy fail.
C39_Witness ==
    /\ obs.op = "get_token"
    /\ obs.prev = "get_token"
    /\ obs.prev_failed
    /\ obs.refreshes = 1
    /\ ~obs.ok
    /\ obs.age = "aged"
    /\ token # None
    /\ obs.pre_token = token

-----------------------------------------------------------------------------
(* utils/cache.py: TTLCache and the ttl_cache decorator *)

\* The keys of the entries, the values stored (None among them: a function
\* may return it), and the sizes and lifetimes caches are constructed with.
CacheKeys == {"k1", "k2", "k3"}
CacheValues == {None, "v1"}
MaxSizes == {0, 1, 2}
TtlSeconds == {0, 1}

\* self._cache, an OrderedDict, is the sequence of its entries in order.
Has(cache, key) == \E i \in 1 .. Len(cache) : cache[i].key = key
Entry(cache, key) == cache[CHOOSE i \in 1 .. Len(cache) : cache[i].key = key]
Without(cache, key) == SelectSeq(cache, LAMBDA en : en.key # key)
KeysOf(cache) == [i \in 1 .. Len(cache) |-> cache[i].key]

MoveToEnd_Stays(cache, key) == cache

\* OrderedDict.move_to_end(key)
MoveToEnd(cache, key) == Without(cache, key) \o <<Entry(cache, key)>>

\* self._cache[key] = (value, expiry): in place for a key the dict holds
Assign(cache, en) ==
    IF Has(cache, en.key)
    THEN [i \in 1 .. Len(cache) |-> IF cache[i].key = en.key THEN en
                                    ELSE cache[i]]
    ELSE Append(cache, en)

Expired_Never(t, expiry) == FALSE

\* get: `time.monotonic() > expiry`
Expired(t, expiry) == t > expiry

Evict_Never(cache, maxsize) == cache

\* set: `while len(self._cache) > self.maxsize: popitem(last=False)`
RECURSIVE Evict(_, _)
Evict(cache, maxsize) ==
    IF Len(cache) > maxsize THEN Evict(Tail(cache), maxsize) ELSE cache

\* TTLCache.get at time t: the dict after it and the value returned
TTLCacheGet(cache, key, t) ==
    IF ~Has(cache, key)
    THEN [cache |-> cache, result |-> None]
    ELSE IF Expired(t, Entry(cache, key).expiry)
    THEN [cache |-> Without(cache, key), result |-> None]
    ELSE [cache |-> MoveToEnd(cache, key), result |-> Entry(cache, key).value]

\* TTLCache.set at time t, before the eviction loop
Stored(cache, key, value, t, ttl) ==
    Assign(IF Has(cache, key) THEN MoveToEnd(cache, key) ELSE cache,
           [key |-> key, value |-> value, expiry |-> t + ttl])

\* TTLCache.set at time t
TTLCacheSet(cache, key, value, t, ttl, maxsize) ==
    Evict(Stored(cache, key, value, t, ttl), maxsize)

\* The keys of the entries of `before` that `after` no longer holds, in order.
Gone(before, after) ==
    KeysOf(SelectSeq(before, LAMBDA en : ~Has(after, en.key)))

\* History: the keys in the order of their last use, the latest last; a use
\* of a key is a set of it or a get that returned its entry.
Use(used, key) == SelectSeq(used, LAMBDA k : k # key) \o <<key>>

\* The key of the entry of cache used least recently, None for an empty one.
Lru(cache, used) ==
    LET stored == SelectSeq(used, LAMBDA k : Has(cache, k))
    IN  IF stored = <<>> THEN None ELSE Head(stored)

cacheFrame == <<tmVars, now, ticks, obs, chain, conn, connection_string,
                pg_config, call, live, pool, wh, sv, rt, cc, esc, pgc, concVars>>

\* TTLCache.__init__
CacheNew ==
    /\ tc.pc = "none"
    /\ \E maxsize \in MaxSizes, ttl \in TtlSeconds :
        tc' = [tc EXCEPT !.pc = "ready", !.maxsize = maxsize,
                         !.ttl_seconds = ttl]
    /\ UNCHANGED cacheFrame

\* time.monotonic() advances between two operations.
CacheTick ==
    /\ tc.pc = "ready"
    /\ ticks < MaxTicks
    /\ now' = now + 1
    /\ ticks' = ticks + 1
    /\ UNCHANGED <<tmVars, obs, offManager>>

\* The record of an operation on the cache as it stands.
CacheOp(name, key, arg) ==
    [name |-> name, key |-> key, arg |-> arg, at |-> now,
     before |-> tc.cache, lru |-> Lru(tc.cache, tc.used), result |-> None,
     evicted |-> <<>>,
     invoked |-> 0]

\* cache.get(key)
CacheGet ==
    /\ tc.pc = "ready"
    /\ \E key \in CacheKeys :
        \E g \in {TTLCacheGet(tc.cache, key, now)} :
            tc' = [tc EXCEPT !.cache = g.cache,
                             !.used = IF Has(g.cache, key) THEN Use(@, key)
                                      ELSE @,
                             !.op = [CacheOp("get", key, None)
                                        EXCEPT !.result = g.result]]
    /\ UNCHANGED cacheFrame

\* cache.set(key, value)
CacheSet ==
    /\ tc.pc = "ready"
    /\ \E key \in CacheKeys, value \in CacheValues :
        \E stored \in {Stored(tc.cache, key, value, now, tc.ttl_seconds)} :
        \E after \in {Evict(stored, tc.maxsize)} :
            tc' = [tc EXCEPT !.cache = after,
                             !.used = Use(@, key),
                             !.op = [CacheOp("set", key, value)
                                        EXCEPT !.evicted = Gone(stored, after)]]
    /\ UNCHANGED cacheFrame

\* cache.clear()
CacheClear ==
    /\ tc.pc = "ready"
    /\ tc' = [tc EXCEPT !.cache = <<>>, !.op = CacheOp("clear", None, None)]
    /\ UNCHANGED cacheFrame

\* A found value makes wrapper return without calling the function.
Found(result) == result # None

\* wrapper(*args) of a function decorated with ttl_cache over this cache,
\* called with the arguments that make key; the function, when it is called,
\* returns value.
CachedCall ==
    /\ tc.pc = "ready"
    /\ \E key \in CacheKeys, value \in CacheValues :
        \E g \in {TTLCacheGet(tc.cache, key, now)} :
        \E stored \in {Stored(g.cache, key, value, now, tc.ttl_seconds)} :
        \E after \in {Evict(stored, tc.maxsize)} :
            tc' = IF Found(g.result)
                  THEN [tc EXCEPT !.cache = g.cache,
                                  !.used = Use(@, key),
                                  !.op = [CacheOp("call", key, value)
                                            EXCEPT !.result = g.result]]
                  ELSE [tc EXCEPT !.cache = after,
                                  !.used = Use(@, key),
                                  !.op = [CacheOp("call", key, value)
                                            EXCEPT !.result = value,
                                                   !.invoked = 1,
                                                   !.evicted = Gone(stored, after)]]
    /\ UNCHANGED cacheFrame

InitCache == InitWh

NextCache ==
    CacheNew \/ CacheTick \/ CacheGet \/ CacheSet \/ CacheClear \/ CachedCall

SpecCache == InitCache /\ [][NextCache]_vars

-----------------------------------------------------------------------------
(* TTLCache, checked under SpecCache *)

\* The keys of a sequence of keys or of the entries of a dict, as a set.
KeySet(keys) == {keys[i] : i \in 1 .. Len(keys)}

\* C31: a set that makes the cache exceed its capacity (a key the cache does
\* not hold, into a cache holding maxsize entries) evicts exactly one entry,
\* the one used least recently, a use being a set of the key or a get that
\* returned its entry (in a cache of capacity 0 that is the entry just
\* set); any other set evicts nothing.  After the set the cache holds the
\* key set and what it held before, less the evicted entry.
C31_SetEvictsLeastRecentlyUsed ==
    tc.op.name = "set" =>
        LET exceeds == /\ ~Has(tc.op.before, tc.op.key)
                       /\ Len(tc.op.before) >= tc.maxsize
            lru == IF tc.op.before = <<>> THEN tc.op.key ELSE tc.op.lru
        IN  /\ tc.op.evicted = IF exceeds THEN <<lru>> ELSE <<>>
            /\ KeySet(KeysOf(tc.cache)) =
                    (KeySet(KeysOf(tc.op.before)) \cup {tc.op.key})
                        \ KeySet(tc.op.evicted)
            /\ tc.maxsize > 0 => Has(tc.cache, tc.op.key)

\* A third key was set into a cache of two that was full: of the two
\* entries the one used less recently was evicted, the other kept.
C31_Witness ==
    /\ tc.op.name = "set"
    /\ tc.maxsize = 2
    /\ KeysOf(tc.op.before) = <<"k2", "k1">>
    /\ tc.used = <<"k2", "k1", "k3">>
    /\ tc.op.key = "k3"
    /\ tc.op.evicted = <<"k2">>
    /\ KeysOf(tc.cache) = <<"k1", "k3">>

\* The entry the last operation found under its key, and whether it found
\* one / found one past its expiry.
Held == Has(tc.op.before, tc.op.key)
HeldEntry == Entry(tc.op.before, tc.op.key)
Lapsed == Held /\ tc.op.at > HeldEntry.expiry

\* C32: a get of a key whose entry is past its expiry returns None and
\* removes the entry, leaving the others as they were; a get of a key the
\* cache does not hold returns None and changes nothing; a get that returns
\* an entry's value found the entry, not past its expiry.
C32_ExpiredEntryIsAbsent ==
    tc.op.name = "get" =>
        /\ Lapsed =>
            /\ tc.op.result = None
            /\ tc.cache = Without(tc.op.before, tc.op.key)
        /\ ~Held =>
            /\ tc.op.result = None
            /\ tc.cache = tc.op.before
        /\ (Held /\ ~Lapsed) =>
            /\ tc.op.result = HeldEntry.value
            /\ Has(tc.cache, tc.op.key)
        /\ tc.op.result # None => (Held /\ tc.op.at <= HeldEntry.expiry)

\* A get found a value under its key past the expiry, returned None and
\* removed the entry, while another entry stayed.
C32_Witness ==
    /\ tc.op.name = "get"
    /\ Lapsed
    /\ HeldEntry.value = "v1"
    /\ tc.op.result = None
    /\ Len(tc.op.before) = 2
    /\ Len(tc.cache) = 1
    /\ ~Has(tc.cache, tc.op.key)

\* C33: whatever get, set, clear and calls through the decorator were made,
\* the cache holds at most maxsize entries, and no key twice.
C33_NeverMoreThanMaxsize ==
    tc.pc = "ready" =>
        /\ Len(tc.cache) <= tc.maxsize
        /\ Cardinality(KeySet(KeysOf(tc.cache))) = Len(tc.cache)

\* A set into a full cache of two evicted an entry and left two.
C33_Witness ==
    /\ tc.op.name = "set"
    /\ tc.maxsize = 2
    /\ Len(tc.op.before) = 2
    /\ tc.op.evicted # <<>>
    /\ Len(tc.cache) = 2
    /\ Len(tc.used) = 3

-----------------------------------------------------------------------------
(* A function decorated with ttl_cache: its cache is touched by the wrapper
   and by cache_clear only *)

NextCached == CacheNew \/ CacheTick \/ CachedCall \/ CacheClear

SpecCached == InitCache /\ [][NextCached]_vars

\* C40: a call of the decorated function with arguments for which an
\* earlier call stored its result, the entry being still in the cache and
\* not past its expiry, does not call the wrapped function and returns the
\* stored result, whatever value that is.
C40_RepeatedCallUsesStoredResult ==
    (tc.op.name = "call" /\ Held /\ ~Lapsed) =>
        /\ tc.op.invoked = 0
        /\ tc.op.result = HeldEntry.value

-----------------------------------------------------------------------------
(* TTLCache used by two threads: every operation runs its body inside
   `with self._lock`, statement by statement *)

\* The sizes and the lifetime the shared cache is constructed with and the
\* value its threads store.
SharedSizes == {1, 2}
SharedTtls == {1}
SharedValues == {"v1"}

sharedFrame == <<tmVars, now, ticks, obs, chain, conn, connection_string,
                 pg_config, call, live, pool, wh, sv, rt, tc, esc, pgc,
                 concVars>>

LockFree_Always(lock, thread) == TRUE

\* RLock.acquire: the lock is free, or held by the thread that asks for it
LockFree(lock, thread) == lock \in {None, thread}

\* The fields of thread after a step that takes it to the statement label.
At(thread, label) == [cc.th[thread] EXCEPT !.pc = label]

\* The first statement of the body of an operation.
Body(op) == CASE op = "get" -> "get-lookup"
              [] op = "set" -> "set-stamp"
              [] OTHER -> "clear"

\* TTLCache.__init__
SharedNew ==
    /\ cc.pc = "none"
    /\ \E maxsize \in SharedSizes, ttl \in SharedTtls :
        cc' = [cc EXCEPT !.pc = "ready", !.maxsize = maxsize,
                         !.ttl_seconds = ttl]
    /\ UNCHANGED sharedFrame

\* time.monotonic() advances, at any point of any operation.
SharedTick ==
    /\ cc.pc = "ready"
    /\ ticks < MaxTicks
    /\ now' = now + 1
    /\ ticks' = ticks + 1
    /\ UNCHANGED <<tmVars, obs, offManager>>

\* A thread calls get, set or clear and arrives at `with self._lock`.
SharedCall(thread) ==
    /\ cc.pc = "ready"
    /\ cc.th[thread].pc \in {"idle", "done"}
    /\ \E op \in {"get", "set", "clear"}, key \in CacheKeys,
          value \in SharedValues :
        cc' = [cc EXCEPT !.th[thread] =
                [NoOperation EXCEPT
                    !.pc = "waiting", !.op = op,
                    !.key = IF op = "clear" THEN None ELSE key,
                    !.value = IF op = "set" THEN value ELSE None]]
    /\ UNCHANGED sharedFrame

\* `with self._lock`: the thread enters the body; history: the dict it finds.
Acquire(thread) ==
    /\ cc.th[thread].pc = "waiting"
    /\ LockFree(cc.lock, thread)
    /\ cc' = [cc EXCEPT !.lock = thread,
                        !.th[thread] = [At(thread, Body(cc.th[thread].op))
                                            EXCEPT !.snap = cc.cache]]
    /\ UNCHANGED sharedFrame

\* get: `if key not in self._cache: return None`
GetLookup(thread) ==
    /\ cc.th[thread].pc = "get-lookup"
    /\ cc' = [cc EXCEPT !.th[thread] =
                IF Has(cc.cache, @.key) THEN At(thread, "get-expiry")
                ELSE At(thread, "exit")]
    /\ UNCHANGED sharedFrame

\* get: `value, expiry = self._cache[key]` and the test of the expiry, with
\* `del self._cache[key]; return None`; a key that is gone raises KeyError
GetExpiry(thread) ==
    /\ cc.th[thread].pc = "get-expiry"
    /\ cc' = IF ~Has(cc.cache, cc.th[thread].key)
             THEN [cc EXCEPT !.th[thread] =
                        [At(thread, "exit") EXCEPT !.result = Raises]]
             ELSE IF Expired(now, Entry(cc.cache, cc.th[thread].key).expiry)
             THEN [cc EXCEPT !.cache = Without(@, cc.th[thread].key),
                             !.th[thread] =
                                [At(thread, "exit") EXCEPT !.t = now]]
             ELSE [cc EXCEPT !.th[thread] =
                        [At(thread, "get-move") EXCEPT
                            !.t = now,
                            !.result = Entry(cc.cache, cc.th[thread].key).value]]
    /\ UNCHANGED sharedFrame

\* get: `self._cache.move_to_end(key); return value`
GetMove(thread) ==
    /\ cc.th[thread].pc = "get-move"
    /\ cc' = IF ~Has(cc.cache, cc.th[thread].key)
             THEN [cc EXCEPT !.th[thread] =
                        [At(thread, "exit") EXCEPT !.result = Raises]]
             ELSE [cc EXCEPT !.cache = MoveToEnd(@, cc.th[thread].key),
                             !.th[thread] = At(thread, "exit")]
    /\ UNCHANGED sharedFrame

\* set: `expiry = time.monotonic() + self.ttl` and the move_to_end of a key
\* the dict holds
SetStamp(thread) ==
    /\ cc.th[thread].pc = "set-stamp"
    /\ cc' = [cc EXCEPT !.cache = IF Has(@, cc.th[thread].key)
                                  THEN MoveToEnd(@, cc.th[thread].key) ELSE @,
                        !.th[thread] = [At(thread, "set-assign")
                                            EXCEPT !.t = now]]
    /\ UNCHANGED sharedFrame

\* set: `self._cache[key] = (value, expiry)`
SetAssign(thread) ==
    /\ cc.th[thread].pc = "set-assign"
    /\ cc' = [cc EXCEPT !.cache = Assign(@, [key |-> cc.th[thread].key,
                                             value |-> cc.th[thread].value,
                                             expiry |-> cc.th[thread].t
                                                        + cc.ttl_seconds]),
                        !.th[thread] = At(thread, "set-evict")]
    /\ UNCHANGED sharedFrame

\* set: one turn of `while len(self._cache) > self.maxsize: popitem(last=False)`
SetEvict(thread) ==
    /\ cc.th[thread].pc = "set-evict"
    /\ cc' = IF Len(cc.cache) > cc.maxsize
             THEN [cc EXCEPT !.cache = Tail(@)]
             ELSE [cc EXCEPT !.th[thread] = At(thread, "exit")]
    /\ UNCHANGED sharedFrame

\* clear: `self._cache.clear()`
SharedClear(thread) ==
    /\ cc.th[thread].pc = "clear"
    /\ cc' = [cc EXCEPT !.cache = <<>>, !.th[thread] = At(thread, "exit")]
    /\ UNCHANGED sharedFrame

\* The end of the `with` block: the lock is released and the call returns.
Release(thread) ==
    /\ cc.th[thread].pc = "exit"
    /\ cc' = [cc EXCEPT !.lock = IF @ = thread THEN None ELSE @,
                        !.th[thread] = [At(thread, "done")
                                            EXCEPT !.snap = <<>>, !.t = 0]]
    /\ UNCHANGED sharedFrame

InitShared == InitWh

NextShared ==
    \/ SharedNew
    \/ SharedTick
    \/ \E thread \in CacheThreads :
        \/ SharedCall(thread)
        \/ Acquire(thread)
        \/ GetLookup(thread)
        \/ GetExpiry(thread)
        \/ GetMove(thread)
        \/ SetStamp(thread)
        \/ SetAssign(thread)
        \/ SetEvict(thread)
        \/ SharedClear(thread)
        \/ Release(thread)

SpecShared == InitShared /\ [][NextShared]_vars

-----------------------------------------------------------------------------
(* TTLCache under concurrent access, checked under SpecShared *)

\* The thread is inside the body of an operation.
Inside(thread) == cc.th[thread].pc \notin {"idle", "waiting", "done"}

\* What the operation o does to the dict it found when it is run alone, all
\* at once, at the time it read the clock.
Atomic(o) ==
    CASE o.op = "get" -> TTLCacheGet(o.snap, o.key, o.t)
      [] o.op = "set" -> [cache |-> TTLCacheSet(o.snap, o.key, o.value, o.t,
                                                cc.ttl_seconds, cc.maxsize),
                          result |-> None]
      [] OTHER -> [cache |-> <<>>, result |-> None]

\* C34: get, set and clear called by several threads are each atomic: at
\* most one thread is inside an operation, and it holds the lock; the dict
\* changes only in a step of that thread; an operation that returns leaves
\* the dict and returns the value that the same operation, run alone on the
\* dict it found, leaves and returns, so the operations take effect one
\* after the other in the order they entered; no operation raises, and
\* between operations the dict holds at most maxsize entries and no key
\* twice.
C34_OperationsAreAtomic ==
    /\ [](/\ \A a, b \in CacheThreads : (Inside(a) /\ Inside(b)) => a = b
          /\ \A a \in CacheThreads :
                /\ Inside(a) => cc.lock = a
                /\ cc.th[a].result # Raises
          /\ (\A a \in CacheThreads : ~Inside(a)) =>
                /\ cc.lock = None
                /\ Len(cc.cache) <= cc.maxsize
                /\ Cardinality(KeySet(KeysOf(cc.cache))) = Len(cc.cache))
    /\ [][/\ cc'.cache # cc.cache =>
                \E a \in CacheThreads :
                    /\ Inside(a)
                    /\ \A b \in CacheThreads \ {a} : cc'.th[b] = cc.th[b]
          /\ \A a \in CacheThreads :
                (cc.th[a].pc = "exit" /\ cc'.th[a].pc = "done") =>
                    /\ cc.cache = Atomic(cc.th[a]).cache
                    /\ cc.th[a].result = Atomic(cc.th[a]).result]_vars

\* One thread is in the eviction loop of a set, the dict holding more than
\* maxsize entries, while the other waits for the lock with a get that the
\* entry about to be evicted would answer.
C34_Witness ==
    /\ cc.th["thread-1"].pc = "set-evict"
    /\ Len(cc.cache) > cc.maxsize
    /\ cc.th["thread-2"].pc = "waiting"
    /\ cc.th["thread-2"].op = "get"
    /\ cc.th["thread-2"].key = Head(cc.cache).key

-----------------------------------------------------------------------------
(* sql_escapes.py: escape_name and escape_pg_name; a string is the sequence
   of its characters *)

\* The two quote characters, by name.
Backtick == "<backtick>"
DoubleQuote == "<double quote>"

\* The characters of the identifiers and how long identifiers are.
NameChars == {"a", ".", Backtick, DoubleQuote}
NameLengths == 0 .. 3
Names == UNION {[1 .. n -> NameChars] : n \in NameLengths}

\* str.strip(q): the string without its leading and trailing q
RECURSIVE LStrip(_, _)
LStrip(s, q) == IF s # <<>> /\ Head(s) = q THEN LStrip(Tail(s), q) ELSE s
RECURSIVE RStrip(_, _)
RStrip(s, q) ==
    IF s # <<>> /\ s[Len(s)] = q THEN RStrip(SubSeq(s, 1, Len(s) - 1), q)
    ELSE s
Strip(s, q) == RStrip(LStrip(s, q), q)

\* str.replace(q, q + q)
RECURSIVE Doubled(_, _)
Doubled(s, q) ==
    IF s = <<>> THEN <<>>
    ELSE (IF Head(s) = q THEN <<q, q>> ELSE <<Head(s)>>) \o Doubled(Tail(s), q)

\* f"`{name}`"
Wrapped(s, q) == <<q>> \o s \o <<q>>

\* escape_name / escape_pg_name with the quote character q of the dialect
Escaped(name, q) == Wrapped(Doubled(Strip(name, q), q), q)

\* The quote character of the dialect of each function.
Quote(op) == IF op = "escape_name" THEN Backtick ELSE DoubleQuote

escFrame == <<tmVars, now, ticks, obs, chain, conn, connection_string,
              pg_config, call, live, pool, wh, sv, rt, tc, cc, pgc, concVars>>

EscapeName ==
    /\ \E name \in Names :
        esc' = [op |-> "escape_name", name |-> name,
                result |-> Escaped(name, Backtick)]
    /\ UNCHANGED escFrame

EscapePgName ==
    /\ \E name \in Names :
        esc' = [op |-> "escape_pg_name", name |-> name,
                result |-> Escaped(name, DoubleQuote)]
    /\ UNCHANGED escFrame

InitEsc == InitWh

NextEsc == EscapeName \/ EscapePgName

SpecEsc == InitEsc /\ [][NextEsc]_vars

\* The string s holds the character c.
HasChar(s, c) == \E i \in 1 .. Len(s) : s[i] = c

\* C35: for an identifier that holds the quote character of the dialect,
\* the result is the whole identifier, every quote character in it doubled,
\* between two quote characters.
C35_WholeIdentifierQuoted ==
    (esc.op # "none" /\ HasChar(esc.name, Quote(esc.op))) =>
        esc.result = Wrapped(Doubled(esc.name, Quote(esc.op)), Quote(esc.op))

-----------------------------------------------------------------------------
(* PostgresConfig: the class of clients/lakebase_backends.py and the class
   of the same name of src/api/clients/lakebase_backends.py, which loads
   unset attributes from the environment and validates the host *)

\* An argument the caller did not pass.
Missing == "<missing>"

\* The host arguments, the values of PGHOST, and the other attributes.
HostArgs == {Missing, None, "", "db.example"}
EnvHosts == {None, "", "env.example"}
Ports == {"5432", "6432"}
Databases == {"databricks_postgres", "app"}
SslModes == {"require", "disable"}
HostAddrs == {None, "10.0.0.1"}
Passwords == {"", "cred-A"}

\* str() of an attribute inside an f-string.
Str(x) == IF x = None THEN "None" ELSE x

\* What a call of a constructor leaves: a configuration or an error.
Config(copy, host, port, database, sslmode, hostaddr) ==
    [op |-> "init", copy |-> copy, constructed |-> TRUE, host |-> host,
     port |-> port, database |-> database, sslmode |-> sslmode,
     hostaddr |-> hostaddr,
     error |-> None, conn_str |-> <<>>]
Failed(copy, error) ==
    [NoConfig EXCEPT !.op = "init", !.copy = copy, !.error = error]

\* clients: PostgresConfig.__init__(host, port, database, user, sslmode,
\* hostaddr); host is the one parameter without a default
PostgresConfigInit(host, port, database, sslmode, hostaddr) ==
    IF host = Missing THEN Failed("clients", "TypeError")
    ELSE Config("clients", host, port, database, sslmode, hostaddr)

\* clients: PostgresConfig.from_instance, the instance having read_write_dns
\* dns and resolve_hostname giving resolved
FromInstance(dns, resolved) ==
    PostgresConfigInit(dns, "5432", "databricks_postgres", "require", resolved)

\* src/api: _validate, `if not self.host: raise ValueError`
Validate(host) == Truthy(host)

\* src/api: PostgresConfig.__init__(**kwargs) with PGHOST holding env:
\* _set_inner_config keeps an argument that is not None, _load_from_env
\* fills an attribute not set from a variable that is set and not empty.
PostgresConfigInitEnv(host, env, port, database, sslmode) ==
    LET set == host \notin {Missing, None}
        loaded == IF set THEN host ELSE IF Truthy(env) THEN env ELSE None
    IN  IF Validate(loaded)
        THEN Config("src/api", loaded, port, database, sslmode, None)
        ELSE Failed("src/api", "ValueError")

\* build_connection_string(password) of either class
ConnectionString(cfg, password) ==
    <<"postgresql://", "token", ":", password, "@", Str(cfg.host), ":",
      cfg.port, "/", cfg.database, "?sslmode=", cfg.sslmode>>
        \o (IF cfg.copy = "clients" /\ Truthy(cfg.hostaddr)
            THEN <<"&hostaddr=", cfg.hostaddr>> ELSE <<>>)

configFrame == <<tmVars, now, ticks, obs, chain, conn, connection_string,
                 pg_config, call, live, pool, wh, sv, rt, tc, cc, esc,
                 concVars>>

ConfigInit ==
    /\ \E host \in HostArgs \ {None}, port \in Ports, database \in Databases,
          sslmode \in SslModes, hostaddr \in HostAddrs :
        pgc' = PostgresConfigInit(host, port, database, sslmode, hostaddr)
    /\ UNCHANGED configFrame

ConfigFromInstance ==
    /\ \E dns \in HostArgs \ {Missing}, resolved \in HostAddrs :
        pgc' = FromInstance(dns, resolved)
    /\ UNCHANGED configFrame

ConfigInitEnv ==
    /\ \E host \in HostArgs, env \in EnvHosts, port \in Ports,
          database \in Databases, sslmode \in SslModes :
        pgc' = PostgresConfigInitEnv(host, env, port, database, sslmode)
    /\ UNCHANGED configFrame

ConfigBuild ==
    /\ pgc.constructed
    /\ \E password \in Passwords :
        pgc' = [pgc EXCEPT !.op = "build",
                           !.conn_str = ConnectionString(pgc, password)]
    /\ UNCHANGED configFrame

InitConfig == InitWh

NextConfig == ConfigInit \/ ConfigFromInstance \/ ConfigInitEnv \/ ConfigBuild

SpecConfig == InitConfig /\ [][NextConfig]_vars

\* C36: a PostgresConfig that was constructed has a host that is not empty,
\* so a connection string is built only from a configuration with a host;
\* a construction with an empty or missing host fails.
C36_HostRequired ==
    /\ pgc.constructed => Truthy(pgc.host)
    /\ pgc.conn_str # <<>> => Truthy(pgc.host)

=============================================================================
